---- MODULE Spec2Model ----
(***************************************************************************)
(* State-machine model of the deno-redis client: the connection session    *)
(* (RedisConnection), the multiplexing executor (MuxExecutor), the         *)
(* pipeline executor (PipelineExecutor) with the codec's sendCommand /     *)
(* sendCommands, and the subscription session (RedisSubscriptionImpl).     *)
(* Every await of the TypeScript source is one step of a task; the         *)
(* synchronous code between two awaits is one atomic action.               *)
(***************************************************************************)
EXTENDS Integers, Sequences, FiniteSets, TLC

\* ------------------------------------------------------------------ bounds
MaxCmds == 3
MaxRetry == 2
MaxFaults == 2
MuxFaults == 1
MaxErrReplies == 1
ConnErrReplies == 2
MaxCloses == 2
MaxFlushes == 2
MaxCalls == 1
MaxFrames == 2
MaxChunks == 3
MaxArgs == 2
MaxDials == MaxRetry + 2

\* ------------------------------------------------------------- vocabulary
CmdNames == {"GET", "INCR"}
RetriableErrors ==
    {"BadResource", "BrokenPipe", "ConnectionAborted", "ConnectionRefused",
     "ConnectionReset", "EOF"}
DialErrors == {"ConnectionRefused", "ConnectionReset"}
IoFaults == {"EOF"}
ReplyKinds == {"val", "err", "bad"}
ExecReplyKinds == {"arrerr"}
UserTask == "user"
DrainTasks == {"d1", "d2"}
RecvTask == "recv"
Tasks == {UserTask, RecvTask} \cup DrainTasks
SendPcs == {"d_send", "rc_ping", "rc_ping2", "cn_auth", "cn_select", "cn_setname"}

Chans == {"a", "b"}
Pats == {"p"}
SubCmds == {"SUBSCRIBE", "UNSUBSCRIBE", "PSUBSCRIBE", "PUNSUBSCRIBE"}
RecvFaults == {"ConnectionReset"}

NoItem == [id |-> 0, cmd |-> "-"]
NoReply == [kind |-> "-", re |-> NoItem]
Frame(c) == [id |-> 0, cmd |-> c]
ErrVal(e) == [kind |-> e, re |-> NoItem]
Unsettled == [st |-> "none", val |-> NoReply, n |-> 0]
CnInit == [dials |-> 0, oks |-> 0, sleeps |-> <<>>, ended |-> FALSE,
           err |-> "-", lastDialErr |-> "-"]
IdleTask == [pc |-> "idle", io |-> "-", sock |-> 0, item |-> NoItem, cn |-> CnInit]

\* No subscribe-type call is awaiting its exec.
NoOp == [kind |-> "-", args |-> {}, id |-> 0, by |-> "-"]
NoMsg == [pattern |-> "-", channel |-> "-"]

\* new RedisSubscriptionImpl(executor): the two key sets, the local variables
\* of #_receive (forceReconnect, the reader lock it holds, the completion
\* pending over its finally block), the awaited call, and the history of the
\* session (what was asked for, the last record yielded, the last read fault,
\* the calls made since the iterator last reconnected).
IdleSub ==
    [channels |-> {}, patterns |-> {}, iter |-> "new", forceReconnect |-> FALSE,
     lock |-> 0, pending |-> "-", op |-> NoOp, err |-> "-",
     want |-> {}, pwant |-> {}, last |-> NoMsg, stale |-> FALSE,
     fault |-> "-", faultClosed |-> FALSE, reconnCalled |-> FALSE,
     nReconn |-> 0, fresh |-> FALSE, replayed |-> <<>>, muxReconn |-> 0,
     opResult |-> "-", nCalls |-> 0]

VARIABLES
    cfg,            \* RedisConnectionOptions: maxRetryCount, password, db, name
    conn,           \* RedisConnection: _isClosed, _isConnected, retryCount, sock
    socks,          \* every Deno.Conn dialled so far: st, pending (unanswered frames)
    task,           \* position of the user's connect() and of each dequeue() run
    queue,          \* MuxExecutor.queue
    isProcessing,   \* MuxExecutor.isProcessing
    settled,        \* per submission: how its promise was settled
    hist,           \* history: frames sent, replies read, settle order, counters
    commands,       \* PipelineExecutor.commands
    tx,             \* PipelineExecutor.tx
    flush,          \* the running PipelineExecutor.flush() / sendCommands()
    sub,            \* RedisSubscriptionImpl: channels, patterns, the receive iterator
    stream,         \* the byte stream of a socket: chunks to come, replies decoded
    env             \* what the callers and the server may do: cmds, faults, errs

muxVars == <<task, queue, isProcessing, settled>>
pipeVars == <<commands, tx, flush>>
vars ==
    <<cfg, conn, socks, task, queue, isProcessing, settled, hist, commands, tx, flush,
      sub, stream, env>>
fixed == <<cfg, env, stream>>

\* The state the connection, the mux and the subscription share, as one
\* record, so that the synchronous calls of the source compose as functions on it.
Cur ==
    [conn |-> conn, socks |-> socks, task |-> task, queue |-> queue,
     isProcessing |-> isProcessing, settled |-> settled, hist |-> hist, sub |-> sub]

\* A socket as Deno.connect returns it; subs and psubs are the subscriptions
\* the server holds for it, wrote the commands of the frames written to it.
NewSocket == [st |-> "open", pending |-> <<>>, subs |-> {}, psubs |-> {}, wrote |-> <<>>]

\* ------------------------------------------------------------ connection
\* closer.close(): what it throws ("-" when it returns); closing a socket
\* that is closed already throws BadResource.
closer_close(S) ==
    IF S.conn.sock # 0 /\ S.socks[S.conn.sock].st = "closed" THEN "BadResource" ELSE "-"

\* (mutant) whatever the closer throws is thrown on
close_Rethrow(S) ==
    [S EXCEPT !.conn.isClosed = TRUE,
              !.conn.isConnected = FALSE,
              !.socks = IF S.conn.sock = 0 THEN @
                        ELSE [@ EXCEPT ![S.conn.sock].st = "closed"],
              !.hist.closeThrew = @ \/ closer_close(S) # "-"]

\* RedisConnection.close(): the flags, then closer?.close(), whose
\* BadResource is swallowed and whose other errors are thrown on.
close(S) ==
    [S EXCEPT !.conn.isClosed = TRUE,
              !.conn.isConnected = FALSE,
              !.socks = IF S.conn.sock = 0 THEN @
                        ELSE [@ EXCEPT ![S.conn.sock].st = "closed"],
              !.hist.closeThrew = @ \/ closer_close(S) \notin {"-", "BadResource"}]

\* (mutant) every error on an open connection counts as retriable
isRetriableError_Any(e, c) == ~c.isClosed

\* isRetriableError(error, connection)
isRetriableError(e, c) ==
    IF c.isClosed THEN FALSE ELSE e \in RetriableErrors

\* sendCommand(writer, reader, command): the stream halves are read from the
\* connection when the call is made; the write is the first await.
sendCommand(S, t, pc) ==
    [S EXCEPT !.task[t].pc = pc, !.task[t].io = "w", !.task[t].sock = S.conn.sock]

\* The frame a task at a sending position writes.
FrameOf(tk) ==
    CASE tk.pc = "d_send" -> tk.item
      [] tk.pc \in {"rc_ping", "rc_ping2"} -> Frame("PING")
      [] tk.pc = "cn_auth" -> Frame("AUTH")
      [] tk.pc = "cn_select" -> Frame("SELECT")
      [] tk.pc = "cn_setname" -> Frame("CLIENT SETNAME")
      [] OTHER -> NoItem

\* connect(), first statement: await Deno.connect(dialOpts)
connect(S, t) ==
    [S EXCEPT !.task[t].pc = "cn_dial", !.task[t].io = "-",
              !.hist.dialsAfterClose = IF S.hist.userClosed THEN @ + 1 ELSE @]

\* ------------------------------------------------------------------- mux
\* Promise resolve / reject: the first settlement wins, later ones are noops.
settle(S, id, st, v) ==
    IF id = 0 THEN S
    ELSE [S EXCEPT !.settled[id] =
                       IF @.st = "none" THEN [st |-> st, val |-> v, n |-> 1]
                       ELSE [@ EXCEPT !.n = @ + 1],
                   !.hist.order = IF S.settled[id].st = "none" THEN Append(@, id) ELSE @]

\* queue.shift()
shift(q) == IF q = <<>> THEN q ELSE Tail(q)

\* (mutant) the newest record instead of the oldest
QueueHead_Last(q) == q[Len(q)]

\* const item = this.queue[0]
QueueHead(q) == q[1]

\* (mutant) the flag is not raised when a drain step starts
dequeue_start_NoFlag(S, t, item) ==
    sendCommand([S EXCEPT !.task[t].item = item], t, "d_send")

\* this.isProcessing = true, then the call of sendCommand for the item
dequeue_start(S, t, item) ==
    sendCommand([S EXCEPT !.isProcessing = TRUE, !.task[t].item = item], t, "d_send")

\* dequeue(), up to its first await
dequeue(S, t) ==
    IF S.isProcessing THEN [S EXCEPT !.task[t] = [IdleTask EXCEPT !.cn = S.task[t].cn]]
    ELSE IF S.queue = <<>>
         THEN [S EXCEPT !.isProcessing = FALSE,
                        !.task[t] = [IdleTask EXCEPT !.cn = S.task[t].cn]]
         ELSE dequeue_start(S, t, QueueHead(S.queue))

\* The dequeue() run a call from exec() uses: the first idle one.
FreeDrain(S) ==
    IF S.task["d1"].pc = "idle" THEN "d1" ELSE "d2"

\* MuxExecutor.exec(command, ...args)
exec(S, c) ==
    LET id == S.hist.nSub + 1
        S0 == [S EXCEPT !.hist.nSub = id,
                        !.hist.cmdOf = Append(@, c),
                        !.hist.afterClose = IF S.hist.userClosed THEN @ \cup {id} ELSE @]
    IN  IF S.conn.isClosed
        THEN settle(S0, id, "rejected", ErrVal("ConnectionClosed"))
        ELSE LET S1 == [S0 EXCEPT !.queue = Append(@, [id |-> id, cmd |-> c])]
             IN  IF ~S1.isProcessing THEN dequeue(S1, FreeDrain(S1)) ELSE S1

\* (mutant) the finally block does not start the next drain step
dequeue_finally_Stop(S, t) ==
    [S EXCEPT !.isProcessing = FALSE,
              !.task[t] = [IdleTask EXCEPT !.cn = S.task[t].cn]]

\* finally { isProcessing = false; if (queue.length > 0) dequeue() }
dequeue_finally(S, t) ==
    LET S1 == [S EXCEPT !.isProcessing = FALSE,
                        !.task[t] = [IdleTask EXCEPT !.cn = S.task[t].cn]]
    IN  IF Len(S1.queue) > 0 THEN dequeue(S1, t) ELSE S1

\* (mutant) the resolved item is not removed from the queue
dequeue_resolve_Keep(S, t, reply) ==
    LET S1 == settle(S, S.task[t].item.id, "resolved", reply)
    IN  dequeue_finally(S1, t)

\* item.resolve(reply); queue.shift(); finally
dequeue_resolve(S, t, reply) ==
    LET S1 == settle(S, S.task[t].item.id, "resolved", reply)
    IN  dequeue_finally([S1 EXCEPT !.queue = shift(@)], t)

\* (mutant) the failure is swallowed: the caller is resolved with it
dequeue_reject_Resolve(S, t, v) ==
    LET S1 == settle(S, S.task[t].item.id, "resolved", v)
    IN  dequeue_finally([S1 EXCEPT !.queue = shift(@)], t)

\* item.reject(error); queue.shift(); finally
dequeue_reject(S, t, v) ==
    LET S1 == settle(S, S.task[t].item.id, "rejected", v)
    IN  dequeue_finally([S1 EXCEPT !.queue = shift(@)], t)

\* (mutant) the item is dropped from the queue although it will be retried
dequeue_reconnected_Shift(S, t) ==
    dequeue_finally([S EXCEPT !.hist.retryOf = S.task[t].item,
                              !.queue = shift(@)], t)

\* await this.connection.reconnect() returned: the item stays at the head
dequeue_reconnected(S, t) ==
    dequeue_finally([S EXCEPT !.hist.retryOf = S.task[t].item], t)

\* ------------------------------------------------------------ subscription
\* The iterator throws e to its consumer.
receive_throw(S, e) ==
    [S EXCEPT !.sub.iter = "thrown", !.sub.err = e, !.sub.pending = "-",
              !.task[RecvTask] = IdleTask]

\* The loop of #_receive is left: the iterator is done.
receive_return(S) ==
    [S EXCEPT !.sub.iter = "done", !.sub.pending = "-", !.task[RecvTask] = IdleTask]

\* After the finally block: the completion pending over it (break, or the
\* error a catch rethrew), else while (this.isConnected) and the next
\* connection.reader.getReader(), await readReply(reader).
receive_loop(S) ==
    IF S.sub.pending = "break" THEN receive_return(S)
    ELSE IF S.sub.pending # "-" THEN receive_throw(S, S.sub.pending)
    ELSE IF ~S.conn.isConnected THEN receive_return(S)
    ELSE IF S.sub.lock # 0 /\ S.sub.lock = S.conn.sock THEN receive_throw(S, "TypeError")
    ELSE [S EXCEPT !.sub.iter = "running",
                   !.sub.lock = S.conn.sock,
                   !.task[RecvTask] = [IdleTask EXCEPT !.pc = "rv_read", !.io = "r",
                                                       !.sock = S.conn.sock]]

\* await this.executor.exec(kind, ...args), at the head of subscribe,
\* unsubscribe, psubscribe and punsubscribe
subscription_call(S, kind, args, by) ==
    LET S1 == exec(S, kind)
    IN  [S1 EXCEPT !.hist.argsOf = Append(@, args),
                   !.sub.op = [kind |-> kind, args |-> args, id |-> S1.hist.nSub,
                               by |-> by],
                   !.sub.opResult = IF by = "user" THEN "-" ELSE @,
                   !.sub.nCalls = IF by = "user" THEN @ + 1 ELSE @,
                   !.sub.replayed = IF by = "recv"
                                    THEN Append(@, [cmd |-> kind, args |-> args])
                                    ELSE @]

\* if (Object.keys(this.patterns).length > 0) await this.psubscribe(...)
receive_replay_patterns(S) ==
    IF S.sub.patterns # {}
    THEN subscription_call(S, "PSUBSCRIBE", S.sub.patterns, "recv")
    ELSE receive_loop(S)

\* if (Object.keys(this.channels).length > 0) await this.subscribe(...)
receive_replay(S) ==
    IF S.sub.channels # {}
    THEN subscription_call(S, "SUBSCRIBE", S.sub.channels, "recv")
    ELSE receive_replay_patterns(S)

\* (mutant) nothing is replayed after the reconnect
receive_reconnected_NoReplay(S) ==
    receive_loop([S EXCEPT !.sub.forceReconnect = FALSE,
                           !.sub.nReconn = @ + 1,
                           !.sub.fresh = TRUE,
                           !.sub.replayed = <<>>,
                           !.sub.muxReconn = S.hist.reconnects,
                           !.task[RecvTask] = [IdleTask EXCEPT !.pc = "rv_replay"]])

\* await connection.reconnect() returned in the finally block of #_receive
receive_reconnected(S) ==
    receive_replay([S EXCEPT !.sub.forceReconnect = FALSE,
                             !.sub.nReconn = @ + 1,
                             !.sub.fresh = TRUE,
                             !.sub.replayed = <<>>,
                             !.sub.muxReconn = S.hist.reconnects,
                             !.task[RecvTask] = [IdleTask EXCEPT !.pc = "rv_replay"]])

\* What the caller asked the session to hold, once their call of kind and
\* args is acknowledged.
Wanted(set, kind, args) ==
    CASE kind \in {"SUBSCRIBE", "PSUBSCRIBE"} -> set \cup args
      [] args = {} -> {}
      [] OTHER -> set \ args

\* (mutant) the key sets are changed whether the exec was acknowledged or rejected
subscription_settled_Always(sb, op, ok) ==
    LET add == op.kind \in {"SUBSCRIBE", "PSUBSCRIBE"}
        chan == op.kind \in {"SUBSCRIBE", "UNSUBSCRIBE"}
        user == op.by = "user"
    IN  [sb EXCEPT
             !.channels = IF chan THEN (IF add THEN @ \cup op.args ELSE @ \ op.args)
                          ELSE @,
             !.patterns = IF ~chan THEN (IF add THEN @ \cup op.args ELSE @ \ op.args)
                          ELSE @,
             !.want = IF chan /\ ok /\ user THEN Wanted(@, op.kind, op.args) ELSE @,
             !.pwant = IF ~chan /\ ok /\ user THEN Wanted(@, op.kind, op.args) ELSE @,
             !.op = NoOp,
             !.opResult = IF op.by = "user" THEN (IF ok THEN "ok" ELSE "rejected")
                          ELSE @]

\* subscribe / unsubscribe / psubscribe / punsubscribe after their await:
\* the for loop over the arguments when exec resolved, nothing when it rejected
subscription_settled(sb, op, ok) ==
    LET add == op.kind \in {"SUBSCRIBE", "PSUBSCRIBE"}
        chan == op.kind \in {"SUBSCRIBE", "UNSUBSCRIBE"}
        user == op.by = "user"
    IN  IF ok
        THEN [sb EXCEPT
                 !.channels = IF chan THEN (IF add THEN @ \cup op.args ELSE @ \ op.args)
                              ELSE @,
                 !.patterns = IF ~chan THEN (IF add THEN @ \cup op.args ELSE @ \ op.args)
                              ELSE @,
                 !.want = IF chan /\ user THEN Wanted(@, op.kind, op.args) ELSE @,
                 !.pwant = IF ~chan /\ user THEN Wanted(@, op.kind, op.args) ELSE @,
                 !.op = NoOp,
                 !.opResult = IF op.by = "user" THEN "ok" ELSE @]
        ELSE [sb EXCEPT !.op = NoOp,
                        !.opResult = IF op.by = "user" THEN "rejected" ELSE @]

\* The continuation of the awaited exec, once its promise is settled: the
\* caller of subscribe() etc. goes on, and so does the replay in #_receive.
session_resume(S) ==
    LET op == S.sub.op
    IN  IF op.kind = "-" THEN S
        ELSE IF S.settled[op.id].st = "none" THEN S
        ELSE IF S.settled[op.id].st = "resolved"
             THEN LET S1 == [S EXCEPT !.sub = subscription_settled(@, op, TRUE)]
                  IN  IF op.by # "recv" THEN S1
                      ELSE IF op.kind = "SUBSCRIBE" THEN receive_replay_patterns(S1)
                      ELSE receive_loop(S1)
             ELSE LET S1 == [S EXCEPT !.sub = subscription_settled(@, op, FALSE)]
                  IN  IF op.by # "recv" THEN S1
                      ELSE receive_throw(S1, S.settled[op.id].val.kind)

\* What reconnect() does to its caller when it returns and when it throws.
reconnect_return(S, t) ==
    IF t = RecvTask THEN receive_reconnected(S) ELSE dequeue_reconnected(S, t)

reconnect_throw(S, t, v) ==
    IF t = RecvTask THEN receive_throw(S, v.kind) ELSE dequeue_reject(S, t, v)

\* connect() returned to its caller
connect_return(S, t) ==
    LET S1 == [S EXCEPT !.task[t].cn.ended = TRUE]
    IN  IF t = UserTask
        THEN [S1 EXCEPT !.task[t].pc = "done", !.task[t].io = "-"]
        ELSE sendCommand(S1, t, "rc_ping2")

\* connect() threw e to its caller: the user, or reconnect() inside dequeue()
connect_throw(S, t, e) ==
    LET S1 == [S EXCEPT !.task[t].cn.ended = TRUE, !.task[t].cn.err = e]
    IN  IF t = UserTask
        THEN [S1 EXCEPT !.task[t].pc = "done", !.task[t].io = "-"]
        ELSE reconnect_throw(S1, t, ErrVal(e))

\* (mutant) off by one: one retry too many
RetryExhausted_Gt(rc, max) == rc > max

\* if (this.retryCount++ >= this.maxRetryCount)
RetryExhausted(rc, max) == rc >= max

\* (mutant) an authentication failure is retried like a transport error
connect_catch_RetryAuth(S, t, e) ==
    IF RetryExhausted(S.conn.retryCount, cfg.maxRetryCount)
    THEN connect_throw([S EXCEPT !.conn.retryCount = 0], t, e)
    ELSE [S EXCEPT !.conn.retryCount = @ + 1,
                   !.task[t].pc = "cn_sleep",
                   !.task[t].io = "-",
                   !.task[t].cn.sleeps = Append(@, S.conn.retryCount + 1),
                   !.hist.sleeps = @ + 1]

\* the outer catch of connect()
connect_catch(S, t, e) ==
    IF e = "AuthenticationError"
    THEN connect_throw([S EXCEPT !.conn.retryCount = 0], t, e)
    ELSE IF RetryExhausted(S.conn.retryCount, cfg.maxRetryCount)
         THEN connect_throw([S EXCEPT !.conn.retryCount = 0], t, e)
         ELSE [S EXCEPT !.conn.retryCount = @ + 1,
                        !.task[t].pc = "cn_sleep",
                        !.task[t].io = "-",
                        !.task[t].cn.sleeps = Append(@, S.conn.retryCount + 1),
                        !.hist.sleeps = @ + 1]

\* (mutant) SELECT is left out of the handshake
handshake_NoSelect(S, t, done) ==
    IF done = "dial" /\ cfg.password THEN sendCommand(S, t, "cn_auth")
    ELSE IF done \in {"dial", "auth", "select"} /\ cfg.name
         THEN sendCommand(S, t, "cn_setname")
    ELSE connect_return([S EXCEPT !.conn.retryCount = 0], t)

\* the handshake of connect(), from the step after `done`
handshake(S, t, done) ==
    IF done = "dial" /\ cfg.password THEN sendCommand(S, t, "cn_auth")
    ELSE IF done \in {"dial", "auth"} /\ cfg.db THEN sendCommand(S, t, "cn_select")
    ELSE IF done \in {"dial", "auth", "select"} /\ cfg.name
         THEN sendCommand(S, t, "cn_setname")
    ELSE connect_return([S EXCEPT !.conn.retryCount = 0], t)

\* authenticate(): an error reply becomes AuthenticationError
authenticate_error(e) == IF e = "ErrorReply" THEN "AuthenticationError" ELSE e

\* the inner catch of connect(): this.close(); throw error
handshake_catch(S, t, e) ==
    LET S1 == IF e = "AuthenticationError" /\ ~S.hist.authFailed
              THEN [S EXCEPT !.hist.authFailed = TRUE,
                             !.hist.authDials = S.hist.dials,
                             !.hist.authSleeps = S.hist.sleeps]
              ELSE S
    IN  connect_catch(close(S1), t, e)

\* reconnect(), up to its first await
reconnect(S, t) ==
    IF S.conn.isClosed THEN reconnect_throw(S, t, ErrVal("ClientClosed"))
    ELSE sendCommand(S, t, "rc_ping")

\* reconnect(): catch of the first PING
reconnect_catch(S, t) ==
    connect([close(S) EXCEPT !.task[t].cn = CnInit], t)

\* the finally block of the loop body of #_receive
receive_finally(S) ==
    IF (~S.conn.isClosed /\ ~S.conn.isConnected) \/ S.sub.forceReconnect
    THEN reconnect([S EXCEPT !.sub.reconnCalled = TRUE,
                             !.task[RecvTask] = IdleTask], RecvTask)
    ELSE receive_loop(S)

\* the outer catch of the loop body of #_receive
receive_catch(S, e) ==
    IF e \in {"InvalidState", "BadResource"}
    THEN receive_finally([S EXCEPT !.sub.forceReconnect = TRUE])
    ELSE receive_finally([S EXCEPT !.sub.pending = e])

\* the inner catch around readReply in #_receive
receive_read_catch(S, e) ==
    IF e = "BadResource"
    THEN receive_finally([close(S) EXCEPT !.sub.pending = "break"])
    ELSE receive_catch(S, e)

\* yield { channel, message } / yield { pattern, channel, message }
receive_yield(S, msg) ==
    [S EXCEPT !.sub.iter = "yield",
              !.sub.lock = 0,
              !.sub.last = msg,
              !.sub.fresh = FALSE,
              !.sub.stale = @ \/ (IF msg.pattern = "-"
                                   THEN msg.channel \notin S.sub.want
                                   ELSE msg.pattern \notin S.sub.pwant),
              !.task[RecvTask] = IdleTask]

\* (mutant) the retry budget of the connection is not consulted
dequeue_catch_NoBudget(S, t, e, v) ==
    IF isRetriableError(e, S.conn)
    THEN reconnect([S EXCEPT !.hist.reconnects = @ + 1], t)
    ELSE dequeue_reject(S, t, v)

\* the catch of dequeue()
dequeue_catch(S, t, e, v) ==
    IF cfg.maxRetryCount > 0 /\ isRetriableError(e, S.conn)
    THEN reconnect([S EXCEPT !.hist.reconnects = @ + 1], t)
    ELSE dequeue_reject(S, t, v)

\* What the error e, thrown by the awaited sendCommand, does to task t.
OnSendError(S, t, e, v) ==
    LET pc == S.task[t].pc
    IN  CASE pc = "d_send" -> dequeue_catch(S, t, e, v)
          [] pc = "rc_ping" -> reconnect_catch(S, t)
          [] pc = "rc_ping2" -> reconnect_throw(S, t, v)
          [] pc = "cn_auth" -> handshake_catch(S, t, authenticate_error(e))
          [] pc \in {"cn_select", "cn_setname"} -> handshake_catch(S, t, e)
          [] OTHER -> S

\* What the value reply, returned by the awaited sendCommand, does to task t.
\* The promise of the first PING of reconnect() is resolved here; reconnect()
\* resumes after its await in a job of its own (Resume).
OnSendReply(S, t, reply) ==
    LET pc == S.task[t].pc
    IN  CASE pc = "d_send" -> dequeue_resolve(S, t, reply)
          [] pc = "rc_ping" -> [S EXCEPT !.task[t].pc = "rc_pong", !.task[t].io = "-"]
          [] pc = "rc_ping2" -> reconnect_return(S, t)
          [] pc = "cn_auth" -> handshake(S, t, "auth")
          [] pc = "cn_select" -> handshake(S, t, "select")
          [] pc = "cn_setname" -> handshake(S, t, "setname")
          [] OTHER -> S

\* readReply: the error a reply of kind k is thrown as ("-" when it is returned)
readReplyError(k) ==
    CASE k = "err" -> "ErrorReply"
      [] k = "bad" -> "InvalidState"
      [] k = "arrerr" -> "InvalidState"
      [] OTHER -> "-"

\* ------------------------------------------------------------- sockets
\* The outcomes of an awaited write or read on socket s: "ok", or the transport
\* error it fails with.  A socket closed by close() or broken by an earlier
\* fault fails every later operation; an open one may fail at any time.
IoOutcomes(S, s) ==
    IF s = 0 THEN {"BadResource"}
    ELSE CASE S.socks[s].st = "closed" -> {"BadResource"}
           [] S.socks[s].st = "broken" -> {"BrokenPipe"}
           [] OTHER -> {"ok"} \cup (IF S.hist.nFaults < env.faults THEN IoFaults ELSE {})

\* The fault e on socket s, as the history records it.
Faulted(S, s, e) ==
    LET S1 == [S EXCEPT !.hist.clean = FALSE]
    IN  IF s # 0 /\ S.socks[s].st = "open"
        THEN [S1 EXCEPT !.socks[s].st = "broken", !.hist.nFaults = @ + 1]
        ELSE S1

\* from / upto: the submissions counted when the previous and this flush() started
IdleFlush ==
    [pc |-> "idle", io |-> "-", sock |-> 0, n |-> 0, snap |-> <<>>, batch |-> <<>>,
     idx |-> 0, results |-> <<>>, written |-> <<>>, got |-> <<>>, err |-> "-",
     from |-> 0, upto |-> 0]

HistInit ==
    [sent |-> <<>>, reads |-> <<>>, order |-> <<>>, nSub |-> 0, cmdOf |-> <<>>,
     userClosed |-> FALSE, nCloses |-> 0, clean |-> TRUE, afterClose |-> {},
     dials |-> 0, dialsAfterClose |-> 0, sleeps |-> 0, nFaults |-> 0, nErrs |-> 0,
     retryOf |-> NoItem, reconnects |-> 0, duringFlush |-> {}, argsOf |-> <<>>,
     authFailed |-> FALSE, authDials |-> 0, authSleeps |-> 0, closeThrew |-> FALSE]

\* ----------------------------------------------------------------- init
Options ==
    [maxRetryCount : 0..MaxRetry, password : BOOLEAN, db : BOOLEAN, name : BOOLEAN]

\* The options of a connection shared with a MuxExecutor: no handshake, or all of it.
MuxOptions == {o \in Options : o.password = o.db /\ o.db = o.name}

\* new RedisConnection(hostname, port, options)
InitConn ==
    /\ cfg \in Options
    /\ conn = [isClosed |-> FALSE, isConnected |-> FALSE, retryCount |-> 0, sock |-> 0]
    /\ socks = <<>>
    /\ hist = HistInit

\* The commands connect() sends on a socket it has dialled, for the options o.
HandshakeFrames(o) ==
    (IF o.password THEN <<"AUTH">> ELSE <<>>)
        \o (IF o.db THEN <<"SELECT">> ELSE <<>>)
        \o (IF o.name THEN <<"CLIENT SETNAME">> ELSE <<>>)

\* The connection as connect() of the library hands it to new MuxExecutor:
\* dialled once, handshake done.
InitConnected ==
    /\ cfg \in MuxOptions
    /\ conn = [isClosed |-> FALSE, isConnected |-> TRUE, retryCount |-> 0, sock |-> 1]
    /\ socks = <<[NewSocket EXCEPT !.wrote = HandshakeFrames(cfg)]>>
    /\ hist = [HistInit EXCEPT !.dials = 1]

\* new MuxExecutor(connection)
InitMux ==
    /\ task = [t \in Tasks |-> IdleTask]
    /\ queue = <<>>
    /\ isProcessing = FALSE
    /\ settled = [i \in 1..MaxCmds |-> Unsettled]

\* new PipelineExecutor(connection, tx)
InitPipe ==
    /\ commands = <<>>
    /\ tx \in BOOLEAN
    /\ flush = IdleFlush

\* No pipeline is in use.
NoPipe ==
    /\ commands = <<>>
    /\ tx = FALSE
    /\ flush = IdleFlush

\* No subscription session is in use.
NoSub == sub = IdleSub

\* The replies are taken frame by frame, not byte by byte.
IdleStream ==
    [frames |-> <<>>, chunks |-> <<>>, closed |-> FALSE, whole |-> TRUE, out |-> <<>>]

Init ==
    /\ InitConnected /\ InitMux /\ NoPipe /\ NoSub /\ stream = IdleStream
    /\ env = [cmds |-> MaxCmds, faults |-> MuxFaults, errs |-> MaxErrReplies, closes |-> 1]

InitC ==
    /\ InitConn /\ InitMux /\ NoPipe /\ NoSub /\ stream = IdleStream
    /\ env = [cmds |-> 0, faults |-> MuxFaults, errs |-> ConnErrReplies,
              closes |-> MaxCloses]

\* A pipeline on an established connection that no other executor is using.
InitP ==
    /\ InitConnected /\ InitMux /\ InitPipe /\ NoSub /\ stream = IdleStream
    /\ cfg.maxRetryCount = 0 /\ ~cfg.password
    /\ env = [cmds |-> MaxCmds, faults |-> MuxFaults, errs |-> MaxErrReplies, closes |-> 1]

InitR ==
    /\ InitConnected /\ InitMux /\ NoPipe /\ NoSub /\ stream = IdleStream
    /\ env = [cmds |-> 1, faults |-> MaxFaults, errs |-> 0, closes |-> 1]

\* ---------------------------------------------------------------- actions
\* The step ends in state S, once the continuations of the promises settled
\* in it have run.
Becomes(S) ==
    LET R == session_resume(session_resume(S))
    IN  /\ conn' = R.conn
        /\ socks' = R.socks
        /\ task' = R.task
        /\ queue' = R.queue
        /\ isProcessing' = R.isProcessing
        /\ settled' = R.settled
        /\ hist' = R.hist
        /\ sub' = R.sub

\* The user calls connection.connect().
UserConnect ==
    /\ task[UserTask].pc = "idle"
    /\ Becomes(connect([Cur EXCEPT !.task[UserTask].cn = CnInit], UserTask))
    /\ UNCHANGED <<fixed, pipeVars>>

\* The errors a dial of task t may fail with.
DialErrorsOf(t) == IF t = UserTask THEN DialErrors ELSE {"ConnectionRefused"}

\* The replies the server may give to the frame of a task at pc.
ReplyKindsAt(S, pc) ==
    IF S.hist.nErrs >= env.errs THEN {"val"}
    ELSE IF pc = "d_send" THEN ReplyKinds ELSE ReplyKinds \ {"bad"}

\* The awaited Deno.connect / Deno.connectTls settles.
Dial(t) ==
    /\ task[t].pc = "cn_dial"
    /\ hist.dials < MaxDials
    /\ \E o \in {"ok"} \cup DialErrorsOf(t) :
          LET S0 == [Cur EXCEPT !.task[t].cn.dials = @ + 1,
                                !.hist.dials = @ + 1]
          IN  IF o = "ok"
              THEN Becomes(handshake(
                       [S0 EXCEPT !.socks = Append(@, NewSocket),
                                  !.conn.sock = Len(socks) + 1,
                                  !.conn.isClosed = FALSE,
                                  !.conn.isConnected = TRUE,
                                  !.task[t].cn.oks = @ + 1], t, "dial"))
              ELSE Becomes(connect_catch(
                       [S0 EXCEPT !.task[t].cn.lastDialErr = o], t, o))
    /\ UNCHANGED <<fixed, pipeVars>>

\* The awaited delay(backoff) elapses: await this.connect().
Sleep(t) ==
    /\ task[t].pc = "cn_sleep"
    /\ Becomes(connect(Cur, t))
    /\ UNCHANGED <<fixed, pipeVars>>

\* The arguments of submission id (the channels or patterns of a subscribe-type call).
ArgsOf(S, id) ==
    IF id \in 1..Len(S.hist.argsOf) THEN S.hist.argsOf[id] ELSE {}

\* The server answers the oldest unanswered frame of a socket with a reply
\* of kind k: a subscribe-type frame it accepts changes what it holds for the
\* socket (UNSUBSCRIBE and PUNSUBSCRIBE without arguments drop everything),
\* one it answers with an error changes nothing.
ServerReplies(sk, k, args) ==
    LET f == Head(sk.pending)
    IN  IF k # "val" THEN [sk EXCEPT !.pending = Tail(@)]
        ELSE [sk EXCEPT
                 !.pending = Tail(@),
                 !.subs = CASE f.cmd = "SUBSCRIBE" -> @ \cup args
                            [] f.cmd = "UNSUBSCRIBE" -> IF args = {} THEN {} ELSE @ \ args
                            [] OTHER -> @,
                 !.psubs = CASE f.cmd = "PSUBSCRIBE" -> @ \cup args
                             [] f.cmd = "PUNSUBSCRIBE" -> IF args = {} THEN {} ELSE @ \ args
                             [] OTHER -> @]

\* reader.getReader() throws TypeError while the receive loop holds the lock
\* of that stream: it takes it before readReply and releases it only after
\* readReply has returned.
ReaderLocked(S, s) == S.sub.lock # 0 /\ S.sub.lock = s

\* The awaited write of sendCommand settles.
Write(t) ==
    /\ task[t].pc \in SendPcs
    /\ task[t].io = "w"
    /\ LET s == task[t].sock
           f == FrameOf(task[t])
           mux == task[t].pc = "d_send"
           S0 == IF mux THEN [Cur EXCEPT !.hist.retryOf = NoItem] ELSE Cur
       IN  \E o \in IoOutcomes(Cur, s) :
             IF o = "ok"
             THEN LET S1 == [S0 EXCEPT
                               !.socks[s].pending = Append(@, f),
                               !.socks[s].wrote = Append(@, f.cmd),
                               !.hist.sent = IF mux
                                             THEN Append(@, [id |-> f.id, cmd |-> f.cmd,
                                                             after |-> hist.retryOf])
                                             ELSE @]
                  IN  IF ReaderLocked(S1, s)
                      THEN Becomes(OnSendError(S1, t, "TypeError", ErrVal("TypeError")))
                      ELSE Becomes([S1 EXCEPT !.task[t].io = "r"])
             ELSE Becomes(OnSendError(Faulted(S0, s, o), t, o, ErrVal(o)))
    /\ UNCHANGED <<fixed, pipeVars>>

\* The awaited readReply of sendCommand settles.
Read(t) ==
    /\ task[t].pc \in SendPcs
    /\ task[t].io = "r"
    /\ LET s == task[t].sock
           mux == task[t].pc = "d_send"
       IN  \E o \in IoOutcomes(Cur, s) :
             IF o = "ok"
             THEN /\ socks[s].pending # <<>>
                  /\ \E k \in ReplyKindsAt(Cur, task[t].pc) :
                       LET reply == [kind |-> k, re |-> Head(socks[s].pending)]
                           S0 == [Cur EXCEPT
                                     !.socks[s] =
                                         ServerReplies(@, k, ArgsOf(Cur, reply.re.id)),
                                     !.hist.reads = IF mux THEN Append(@, reply) ELSE @,
                                     !.hist.nErrs = IF k = "val" THEN @ ELSE @ + 1,
                                     !.hist.clean = IF k = "bad" THEN FALSE ELSE @]
                       IN  IF k = "val"
                           THEN Becomes(OnSendReply(S0, t, reply))
                           ELSE Becomes(OnSendError(S0, t, readReplyError(k), reply))
             ELSE Becomes(OnSendError(Faulted(Cur, s, o), t, o, ErrVal(o)))
    /\ UNCHANGED <<fixed, pipeVars>>

\* The user calls close() (MuxExecutor.close / RedisConnection.close).
UserClose ==
    /\ hist.nCloses < env.closes
    /\ Becomes(close([Cur EXCEPT !.hist.userClosed = TRUE, !.hist.clean = FALSE,
                                 !.hist.nCloses = @ + 1]))
    /\ UNCHANGED <<fixed, pipeVars>>

\* A caller submits a command to the executor of an established connection.
Exec(c) ==
    /\ hist.nSub < env.cmds
    /\ \E t \in DrainTasks : task[t].pc = "idle"
    /\ Becomes(exec(Cur, c))
    /\ UNCHANGED <<fixed, pipeVars>>

\* ---------------------------------------------------------------- pipeline
\* export const okReply = new SimpleStringReply("OK")
okReply == [kind |-> "ok", re |-> NoItem]

\* (mutant) the record is put at the front of the list
pipeline_push_Front(cmds, rec) == <<rec>> \o cmds

\* this.commands.push({ command, args })
pipeline_push(cmds, rec) == Append(cmds, rec)

\* PipelineExecutor.exec(command, ...args): push, resolve with okReply
PipeExec(c) ==
    /\ hist.nSub < env.cmds
    /\ LET id == hist.nSub + 1
       IN  /\ commands' = pipeline_push(commands, [id |-> id, cmd |-> c])
           /\ settled' = [settled EXCEPT
                             ![id] = [st |-> "resolved", val |-> okReply, n |-> 1]]
           /\ hist' = [hist EXCEPT
                          !.nSub = id,
                          !.cmdOf = Append(@, c),
                          !.afterClose = IF hist.userClosed THEN @ \cup {id} ELSE @,
                          !.duringFlush = IF flush.pc = "send" THEN @ \cup {id} ELSE @]
    /\ UNCHANGED <<fixed, conn, socks, task, queue, isProcessing, tx, flush, sub>>

\* (mutant) the transaction is never executed: no EXEC frame
TxFrames_NoExec(t, snap) ==
    IF t THEN <<Frame("MULTI")>> \o snap ELSE snap

\* flush(): the frames of the snapshot, wrapped in MULTI .. EXEC in tx mode
TxFrames(t, snap) ==
    IF t THEN <<Frame("MULTI")>> \o snap \o <<Frame("EXEC")>> ELSE snap

\* (mutant) the list is not cleared when the snapshot is taken
flush_clear_Keep(cmds) == cmds

\* this.commands = []
flush_clear(cmds) == <<>>

\* flush(), up to the first await of sendCommands
FlushStart ==
    /\ flush.pc \in {"idle", "done", "thrown"}
    /\ flush.n < MaxFlushes
    /\ LET batch == TxFrames(tx, commands)
           f0 == [IdleFlush EXCEPT !.n = flush.n + 1, !.snap = commands,
                                   !.batch = batch, !.from = flush.upto,
                                   !.upto = hist.nSub]
       IN  flush' = IF Len(batch) = 0
                    THEN [f0 EXCEPT !.pc = "done"]
                    ELSE [f0 EXCEPT !.pc = "send", !.io = "w", !.idx = 1,
                                    !.sock = conn.sock]
    /\ commands' = flush_clear(commands)
    /\ UNCHANGED <<fixed, conn, socks, muxVars, hist, tx, sub>>

\* sendCommands: the loop goes on to the next command, or returns results
sendCommands_next(f) ==
    IF f.idx < Len(f.batch)
    THEN [f EXCEPT !.idx = @ + 1, !.io = "w"]
    ELSE [f EXCEPT !.pc = "done", !.io = "-"]

\* (mutant) the failure is swallowed and the loop goes on
sendCommands_throw_Swallow(f, e) ==
    sendCommands_next([f EXCEPT !.err = e])

\* sendCommands: a throw that is no ErrorReplyError leaves the loop and flush
sendCommands_throw(f, e) ==
    [f EXCEPT !.pc = "thrown", !.io = "-", !.err = e]

\* (mutant) an error reply is dropped instead of being kept as a value
sendCommands_reply_DropError(f, reply) ==
    CASE reply.kind = "val" ->
           sendCommands_next([f EXCEPT !.results = Append(@, reply)])
      [] reply.kind = "err" -> sendCommands_next(f)
      [] OTHER -> sendCommands_throw(f, readReplyError(reply.kind))

\* sendCommands: results.push(reply.value()), or results.push(e) for an
\* ErrorReplyError, or throw e
sendCommands_reply(f, reply) ==
    CASE reply.kind = "val" ->
           sendCommands_next([f EXCEPT !.results = Append(@, reply)])
      [] reply.kind = "err" ->
           sendCommands_next([f EXCEPT !.results = Append(@, reply)])
      [] OTHER -> sendCommands_throw(f, readReplyError(reply.kind))

\* The awaited write of the flush's current sendCommand settles.
FlushWrite ==
    /\ flush.pc = "send"
    /\ flush.io = "w"
    /\ LET s == flush.sock
           f == flush.batch[flush.idx]
       IN  \E o \in IoOutcomes(Cur, s) :
             IF o = "ok"
             THEN /\ Becomes([Cur EXCEPT !.socks[s].pending = Append(@, f),
                                         !.socks[s].wrote = Append(@, f.cmd)])
                  /\ flush' = [flush EXCEPT !.io = "r", !.written = Append(@, f)]
             ELSE /\ Becomes(Faulted(Cur, s, o))
                  /\ flush' = sendCommands_throw(flush, o)
    /\ UNCHANGED <<fixed, commands, tx>>

\* The replies the server may give to the current frame of a flush: EXEC is
\* answered with an array, which holds an error element where a queued
\* command failed when the transaction was executed.
FlushReplyKinds(S, fl) ==
    ReplyKindsAt(S, "d_send") \cup
        (IF fl.batch[fl.idx].cmd = "EXEC" /\ fl.snap # <<>> /\ S.hist.nErrs < env.errs
         THEN ExecReplyKinds ELSE {})

\* The awaited readReply of the flush's current sendCommand settles.
FlushRead ==
    /\ flush.pc = "send"
    /\ flush.io = "r"
    /\ LET s == flush.sock
       IN  \E o \in IoOutcomes(Cur, s) :
             IF o = "ok"
             THEN /\ socks[s].pending # <<>>
                  /\ \E k \in FlushReplyKinds(Cur, flush) :
                       LET reply == [kind |-> k, re |-> Head(socks[s].pending)]
                       IN  /\ Becomes([Cur EXCEPT
                                  !.socks[s].pending = Tail(@),
                                  !.hist.nErrs = IF k = "val" THEN @ ELSE @ + 1,
                                  !.hist.clean = IF k = "bad" THEN FALSE ELSE @])
                           /\ flush' = sendCommands_reply(
                                  [flush EXCEPT !.got = Append(@, reply)], reply)
             ELSE /\ Becomes(Faulted(Cur, s, o))
                  /\ flush' = sendCommands_throw(flush, o)
    /\ UNCHANGED <<fixed, commands, tx>>

\* PipelineExecutor.close()
PipeClose ==
    /\ hist.nCloses < env.closes
    /\ Becomes(close([Cur EXCEPT !.hist.userClosed = TRUE, !.hist.clean = FALSE,
                                 !.hist.nCloses = @ + 1]))
    /\ UNCHANGED <<fixed, pipeVars>>

NextP ==
    \/ \E c \in CmdNames : PipeExec(c)
    \/ FlushStart
    \/ FlushWrite
    \/ FlushRead
    \/ PipeClose

SpecPipe == InitP /\ [][NextP]_vars

Next ==
    \/ UserClose
    \/ \E t \in DrainTasks : Dial(t)
    \/ \E t \in DrainTasks : Sleep(t)
    \/ \E t \in DrainTasks : Write(t)
    \/ \E t \in DrainTasks : Read(t)
    \/ \E c \in CmdNames : Exec(c)

Spec == Init /\ [][Next]_vars

NextC ==
    \/ UserConnect
    \/ UserClose
    \/ Dial(UserTask)
    \/ Sleep(UserTask)
    \/ Write(UserTask)
    \/ Read(UserTask)

SpecConn == InitC /\ [][NextC]_vars

\* One command, retried: the server faults as often as MaxFaults allows.
SpecRetry == InitR /\ [][Next]_vars

\* A MuxExecutor whose awaited writes and reads settle: a write or a read on
\* a socket ends, with a value or with an error.
InitL ==
    /\ InitConnected /\ InitMux /\ NoPipe /\ NoSub /\ stream = IdleStream
    /\ cfg.maxRetryCount = 1 /\ ~cfg.password
    /\ env = [cmds |-> MaxCmds, faults |-> MuxFaults, errs |-> 0, closes |-> 1]

SpecClose ==
    /\ InitL /\ [][Next]_vars
    /\ WF_vars(\E t \in DrainTasks : Write(t) \/ Read(t))

\* ------------------------------------------------------ subscription session
\* How a session is made: subscribe(executor, ...channels) or
\* psubscribe(executor, ...patterns), acknowledged on the first socket.
SessionStarts ==
    {[channels |-> {"a"}, patterns |-> {}],
     [channels |-> Chans, patterns |-> {}],
     [channels |-> {}, patterns |-> Pats]}

\* The exec calls of a session: those of its caller, and one SUBSCRIBE and
\* one PSUBSCRIBE for every reconnect of the iterator.
MaxSubIds == MaxCalls + 2 * MaxErrReplies

InitS ==
    /\ cfg \in {o \in Options : ~o.password /\ ~o.db /\ ~o.name}
    /\ conn = [isClosed |-> FALSE, isConnected |-> TRUE, retryCount |-> 0, sock |-> 1]
    /\ hist = [HistInit EXCEPT !.dials = 1]
    /\ task = [t \in Tasks |-> IdleTask]
    /\ queue = <<>>
    /\ isProcessing = FALSE
    /\ settled = [i \in 1..MaxSubIds |-> Unsettled]
    /\ NoPipe
    /\ stream = IdleStream
    /\ \E st \in SessionStarts :
          /\ socks = <<[NewSocket EXCEPT !.subs = st.channels, !.psubs = st.patterns]>>
          /\ sub = [IdleSub EXCEPT !.channels = st.channels, !.patterns = st.patterns,
                                   !.want = st.channels, !.pwant = st.patterns]
    /\ env = [cmds |-> MaxSubIds, faults |-> MuxFaults, errs |-> MaxErrReplies,
              closes |-> 1]

\* The argument lists a caller passes: SUBSCRIBE and PSUBSCRIBE name at
\* least one key, UNSUBSCRIBE and PUNSUBSCRIBE may name none.
CallArgs(kind) ==
    CASE kind = "SUBSCRIBE" -> (SUBSET Chans) \ {{}}
      [] kind = "UNSUBSCRIBE" -> SUBSET Chans
      [] kind = "PSUBSCRIBE" -> (SUBSET Pats) \ {{}}
      [] OTHER -> SUBSET Pats

\* The consumer calls subscribe, unsubscribe, psubscribe or punsubscribe
\* between two next() calls of the iterator.
SubCall(kind, args) ==
    /\ sub.op = NoOp
    /\ sub.iter # "running"
    /\ sub.nCalls < MaxCalls
    /\ hist.nSub < env.cmds
    /\ \E t \in DrainTasks : task[t].pc = "idle"
    /\ Becomes(subscription_call(Cur, kind, args, "user"))
    /\ UNCHANGED <<fixed, pipeVars>>

\* The consumer calls next() on the iterator of receive(): the first call
\* enters the loop, a later one resumes after the yield, at the finally block.
RecvNext ==
    /\ sub.op = NoOp
    /\ sub.iter \in {"new", "yield"}
    /\ LET S0 == [Cur EXCEPT !.sub.iter = "running"]
       IN  Becomes(IF sub.iter = "new" THEN receive_loop(S0) ELSE receive_finally(S0))
    /\ UNCHANGED <<fixed, pipeVars>>

\* The frames the server may push on socket s, and a frame readReply cannot decode.
PushFrames(S, s) ==
    {[pattern |-> "-", channel |-> c] : c \in S.socks[s].subs}
        \cup {[pattern |-> q, channel |-> "-"] : q \in S.socks[s].psubs}
        \cup (IF S.hist.nErrs < env.errs THEN {NoMsg} ELSE {})

\* The outcomes of the read of the receive loop on socket s.  A read that is
\* pending when the socket is closed ends with BadResource or with
\* end-of-stream, which readReply throws as EOFError.
RecvOutcomes(S, s) ==
    IF s # 0 /\ S.socks[s].st = "open"
    THEN {"ok"} \cup (IF S.hist.nFaults < env.faults THEN RecvFaults ELSE {})
    ELSE IF s # 0 /\ S.socks[s].st = "closed" THEN {"BadResource", "EOF"}
    ELSE IoOutcomes(S, s)

\* The awaited readReply of #_receive settles.
RecvRead ==
    /\ task[RecvTask].pc = "rv_read"
    /\ LET s == task[RecvTask].sock
       IN  \E o \in RecvOutcomes(Cur, s) :
             IF o = "ok"
             THEN \E m \in PushFrames(Cur, s) :
                    IF m = NoMsg
                    THEN Becomes(receive_catch(
                             [Cur EXCEPT !.hist.nErrs = @ + 1], "InvalidState"))
                    ELSE Becomes(receive_yield(Cur, m))
             ELSE Becomes(receive_read_catch(
                      [Faulted(Cur, s, o) EXCEPT
                           !.sub.fault = o,
                           !.sub.faultClosed = hist.userClosed,
                           !.sub.reconnCalled = FALSE], o))
    /\ UNCHANGED <<fixed, pipeVars>>

NextS ==
    \/ \E k \in SubCmds : \E a \in CallArgs(k) : SubCall(k, a)
    \/ RecvNext
    \/ RecvRead
    \/ UserClose
    \/ \E t \in DrainTasks \cup {RecvTask} : Dial(t)
    \/ \E t \in DrainTasks \cup {RecvTask} : Sleep(t)
    \/ \E t \in DrainTasks \cup {RecvTask} : Write(t)
    \/ \E t \in DrainTasks \cup {RecvTask} : Read(t)

SpecSub == InitS /\ [][NextS]_vars

\* reconnect() resumes after `await this.sendCommand("PING")`, whose promise
\* was resolved: this._isConnected = true.  Jobs that were queued before this
\* one, a close() call among them, have run in between.
Resume(t) ==
    /\ task[t].pc = "rc_pong"
    /\ Becomes(reconnect_return([Cur EXCEPT !.conn.isConnected = TRUE], t))
    /\ UNCHANGED <<fixed, pipeVars>>

\* The caller calls subscribe, unsubscribe, psubscribe or punsubscribe while
\* a next() call of the iterator is pending on its read: the for-await loop
\* over receive() runs in a task of its own.
SubCallDuringRead(kind, args) ==
    /\ sub.op = NoOp
    /\ task[RecvTask].pc = "rv_read"
    /\ sub.nCalls < MaxCalls
    /\ hist.nSub < env.cmds
    /\ \E t \in DrainTasks : task[t].pc = "idle"
    /\ Becomes(subscription_call(Cur, kind, args, "user"))
    /\ UNCHANGED <<fixed, pipeVars>>

NextB ==
    \/ NextS
    \/ \E k \in SubCmds : \E a \in CallArgs(k) : SubCallDuringRead(k, a)
    \/ \E t \in DrainTasks : Resume(t)

\* A session on one channel, over a connection that retries once.
InitB == InitS /\ cfg.maxRetryCount = 1 /\ sub.channels = {"a"}

SpecShare == InitB /\ [][NextB]_vars

\* The awaited readReply of #_receive returns a reply that is no array: the
\* lock is released and reply.array() throws InvalidStateError.
RecvNotArray ==
    /\ task[RecvTask].pc = "rv_read"
    /\ task[RecvTask].sock # 0
    /\ socks[task[RecvTask].sock].st = "open"
    /\ hist.nErrs < env.errs
    /\ Becomes(receive_catch([Cur EXCEPT !.hist.nErrs = @ + 1, !.sub.lock = 0],
                             "InvalidState"))
    /\ UNCHANGED <<fixed, pipeVars>>

NextR ==
    \/ NextS
    \/ RecvNotArray
    \/ Resume(RecvTask)

SpecResume == InitB /\ [][NextR]_vars


\* -------------------------------------------------------------------- codec
\* Bytes are one-character strings; a StreamBuffer P is [buf, chunks, closed]:
\* the bytes of its Buffer, the chunks reader.read() will still deliver, and
\* whether the stream ends after them ("Pending": the awaited read never settles).
CRLF == <<"\r", "\n">>

DigitVal ==
    [c \in {"0", "1", "2", "3", "4", "5", "6", "7", "8", "9"} |->
        CASE c = "0" -> 0 [] c = "1" -> 1 [] c = "2" -> 2 [] c = "3" -> 3
          [] c = "4" -> 4 [] c = "5" -> 5 [] c = "6" -> 6 [] c = "7" -> 7
          [] c = "8" -> 8 [] OTHER -> 9]

\* parseInt(decoder.decode(bytes)): the longest prefix that is a decimal
\* number, NaN when there is none
parseInt(b) ==
    LET signed == b # <<>> /\ b[1] \in {"-", "+"}
        d == IF signed THEN Tail(b) ELSE b
        RECURSIVE num(_, _, _)
        num(k, acc, any) ==
            IF k <= Len(d) /\ d[k] \in DOMAIN DigitVal
            THEN num(k + 1, 10 * acc + DigitVal[d[k]], TRUE)
            ELSE [nan |-> ~any, n |-> IF signed /\ b[1] = "-" THEN 0 - acc ELSE acc]
    IN  num(1, 0, FALSE)

\* parseSize(line): parseInt of line.subarray(1, line.length)
parseSize(line) == parseInt(IF line = <<>> THEN <<>> ELSE Tail(line))

\* A reply as the decoder builds it: its type code, its body, its elements.
Reply(t, b, els) == [t |-> t, b |-> b, els |-> els]

\* The call on P ends by throwing e.
Throws(P, e) == [p |-> P, e |-> e, v |-> Reply("-", <<>>, <<>>)]

\* StreamBuffer.findCRLF(data), as a 1-based position, 0 when there is none
findCRLF(data) ==
    LET hits == {i \in 1..(Len(data) - 1) : data[i] = "\r" /\ data[i + 1] = "\n"}
    IN  IF hits = {} THEN 0 ELSE CHOOSE i \in hits : \A j \in hits : i <= j

\* StreamBuffer.ensureBufferSize(minSize)
RECURSIVE ensureBufferSize(_, _)
ensureBufferSize(P, minSize) ==
    IF Len(P.buf) >= minSize THEN [p |-> P, e |-> "-"]
    ELSE IF P.chunks = <<>>
         THEN [p |-> P, e |-> IF P.closed THEN "-" ELSE "Pending"]
         ELSE ensureBufferSize([P EXCEPT !.buf = @ \o Head(P.chunks),
                                         !.chunks = Tail(@)], minSize)

\* StreamBuffer.readLine(): e is "null" where it returns null
RECURSIVE readLine(_)
readLine(P) ==
    LET i == findCRLF(P.buf)
    IN  IF i # 0
        THEN [p |-> [P EXCEPT !.buf = SubSeq(@, i + 2, Len(@))], e |-> "-",
              v |-> SubSeq(P.buf, 1, i - 1)]
        ELSE IF P.chunks # <<>>
             THEN readLine([P EXCEPT !.buf = @ \o Head(P.chunks), !.chunks = Tail(@)])
             ELSE IF ~P.closed THEN [p |-> P, e |-> "Pending", v |-> <<>>]
             ELSE IF Len(P.buf) > 0
                  THEN [p |-> [P EXCEPT !.buf = <<>>], e |-> "-", v |-> P.buf]
                  ELSE [p |-> P, e |-> "null", v |-> <<>>]

\* StreamBuffer.readBytes(length); length is what parseSize returned
readBytes(P, length) ==
    LET E == IF length.nan THEN [p |-> P, e |-> "-"] ELSE ensureBufferSize(P, length.n)
        data == E.p.buf
        len == IF length.nan THEN 0 ELSE length.n
    IN  IF E.e # "-" THEN [p |-> E.p, e |-> E.e, v |-> <<>>]
        ELSE IF ~length.nan /\ Len(data) < length.n
             THEN [p |-> E.p, e |-> "InvalidState", v |-> <<>>]
             ELSE [p |-> [E.p EXCEPT !.buf = SubSeq(data, len + 1, Len(data))],
                   e |-> "-", v |-> SubSeq(data, 1, len)]

\* tryParseErrorReply(line): what it throws
tryParseErrorReply(line) ==
    IF line # <<>> /\ line[1] = "-" THEN "ErrorReply" ELSE "Error"

\* readSimpleStringReplyBody(reader)
readSimpleStringReplyBody(P) ==
    LET L == readLine(P)
    IN  IF L.e = "Pending" THEN Throws(L.p, "Pending")
        ELSE IF L.e = "null" THEN Throws(L.p, "InvalidState")
        ELSE IF L.v = <<>> \/ L.v[1] # "+" THEN Throws(L.p, tryParseErrorReply(L.v))
        ELSE [p |-> L.p, e |-> "-", v |-> Reply("+", Tail(L.v), <<>>)]

\* readIntegerReplyBody(reader)
readIntegerReplyBody(P) ==
    LET L == readLine(P)
    IN  IF L.e = "Pending" THEN Throws(L.p, "Pending")
        ELSE IF L.e = "null" THEN Throws(L.p, "InvalidState")
        ELSE [p |-> L.p, e |-> "-",
              v |-> Reply(":", IF L.v = <<>> THEN <<>> ELSE Tail(L.v), <<>>)]

\* readBulkReplyBody(reader); the nil bulk reply has type "nil"
readBulkReplyBody(P) ==
    LET L == readLine(P)
        size == parseSize(L.v)
        D == readBytes(L.p, size)
        T == readBytes(D.p, [nan |-> FALSE, n |-> 2])
    IN  IF L.e = "Pending" THEN Throws(L.p, "Pending")
        ELSE IF L.e = "null" THEN Throws(L.p, "InvalidState")
        ELSE IF L.v = <<>> \/ L.v[1] # "$" THEN Throws(L.p, tryParseErrorReply(L.v))
        ELSE IF ~size.nan /\ size.n < 0
             THEN [p |-> L.p, e |-> "-", v |-> Reply("nil", <<>>, <<>>)]
        ELSE IF D.e # "-" THEN Throws(D.p, D.e)
        ELSE IF T.e # "-" THEN Throws(T.p, T.e)
        ELSE IF T.v # CRLF THEN Throws(T.p, "InvalidState")
        ELSE [p |-> T.p, e |-> "-", v |-> Reply("$", D.v, <<>>)]

\* class BulkReply, constructed on the body readBulkReplyBody returned: what
\* each accessor returns, null or the bytes (of the text, for a text)
BulkReply(rep) ==
    LET body == [null |-> rep.t = "nil", b |-> rep.b]
        bulk == IF ~body.null THEN body ELSE [null |-> TRUE, b |-> <<>>]
    IN  [bulk |-> bulk,
         buffer |-> IF body.null THEN [null |-> FALSE, b |-> <<>>] ELSE body,
         string |-> IF body.null THEN [null |-> FALSE, b |-> <<>>] ELSE body,
         value |-> bulk]

\* readArrayReplyBody(reader); the null array has type "null", and
\* new Array(argCount) throws RangeError for NaN and for a negative length
RECURSIVE readArrayReplyBody(_)
readArrayReplyBody(P) ==
    LET L == readLine(P)
        argCount == parseSize(L.v)
        RECURSIVE elements(_, _, _)
        elements(Q, i, array) ==
            IF i >= argCount.n THEN [p |-> Q, e |-> "-", v |-> Reply("*", <<>>, array)]
            ELSE LET E == ensureBufferSize(Q, 1)
                 IN  IF E.e # "-" THEN Throws(E.p, E.e)
                     ELSE IF E.p.buf = <<>> THEN Throws(E.p, "EOF")
                     ELSE LET code == E.p.buf[1]
                              R == CASE code = "+" -> readSimpleStringReplyBody(E.p)
                                     [] code = "$" -> readBulkReplyBody(E.p)
                                     [] code = ":" -> readIntegerReplyBody(E.p)
                                     [] code = "*" -> readArrayReplyBody(E.p)
                                     [] OTHER -> Throws(E.p, "InvalidState")
                          IN  IF R.e # "-" THEN R
                              ELSE elements(R.p, i + 1, Append(array, R.v))
    IN  IF L.e = "Pending" THEN Throws(L.p, "Pending")
        ELSE IF L.e = "null" THEN Throws(L.p, "InvalidState")
        ELSE IF ~argCount.nan /\ argCount.n = -1
             THEN [p |-> L.p, e |-> "-", v |-> Reply("null", <<>>, <<>>)]
        ELSE IF argCount.nan \/ argCount.n < 0 THEN Throws(L.p, "RangeError")
        ELSE elements(L.p, 0, <<>>)

\* new StreamBuffer(reader): an empty Buffer on the chunks still to come
StreamBuffer(chunks, closed) ==
    [buf |-> <<>>, chunks |-> chunks, closed |-> closed]

\* readReply(reader)
readReply(chunks, closed) ==
    LET E == ensureBufferSize(StreamBuffer(chunks, closed), 1)
    IN  IF E.e # "-" THEN Throws(E.p, E.e)
        ELSE IF E.p.buf = <<>> THEN Throws(E.p, "EOF")
        ELSE LET code == E.p.buf[1]
                 L == readLine(E.p)
             IN  CASE code = "-" ->
                        IF L.e = "-" THEN Throws(L.p, tryParseErrorReply(L.v))
                        ELSE IF L.e = "Pending" THEN Throws(L.p, "Pending")
                        ELSE Throws(L.p, "InvalidState")
                   [] code = ":" -> readIntegerReplyBody(E.p)
                   [] code = "+" -> readSimpleStringReplyBody(E.p)
                   [] code = "$" -> readBulkReplyBody(E.p)
                   [] code = "*" -> readArrayReplyBody(E.p)
                   [] OTHER -> Throws(E.p, "InvalidState")

\* The bulk string the server sends for the bytes b.
Bulk(b) ==
    <<"$", CHOOSE c \in DOMAIN DigitVal : DigitVal[c] = Len(b)>> \o CRLF \o b \o CRLF

\* No record: the loop of #_receive goes round without a yield.
NoRecord == [pattern |-> <<>>, channel |-> <<>>, message |-> <<"-">>]

\* #_receive, from rep = reply.array() to the yield
receive_record(rep) ==
    IF rep.t = "*" /\ Len(rep.els) = 3
          /\ rep.els[1].b = <<"m", "e", "s", "s", "a", "g", "e">>
    THEN [pattern |-> <<>>, channel |-> rep.els[2].b, message |-> rep.els[3].b]
    ELSE IF rep.t = "*" /\ Len(rep.els) = 4
               /\ rep.els[1].b = <<"p", "m", "e", "s", "s", "a", "g", "e">>
         THEN [pattern |-> rep.els[2].b, channel |-> rep.els[3].b,
               message |-> rep.els[4].b]
         ELSE NoRecord

\* The frames a server sends: the bytes, the reply they encode, and the
\* record the receive iterator is to yield for a pushed message.
ServerFrames ==
    LET message == <<"m", "e", "s", "s", "a", "g", "e">>
        pmessage == <<"p">> \o message
        str(b) == Reply("$", b, <<>>)
    IN  {[bytes |-> <<"+", "O", "K">> \o CRLF,
          reply |-> Reply("+", <<"O", "K">>, <<>>), rec |-> NoRecord],
         [bytes |-> <<":", "7">> \o CRLF,
          reply |-> Reply(":", <<"7">>, <<>>), rec |-> NoRecord],
         [bytes |-> Bulk(CRLF), reply |-> str(CRLF), rec |-> NoRecord],
         [bytes |-> <<"$", "-", "1">> \o CRLF,
          reply |-> Reply("nil", <<>>, <<>>), rec |-> NoRecord],
         [bytes |-> Bulk(<<>>), reply |-> str(<<>>), rec |-> NoRecord],
         [bytes |-> <<"*", "-", "1">> \o CRLF,
          reply |-> Reply("null", <<>>, <<>>), rec |-> NoRecord],
         [bytes |-> <<"*", "2">> \o CRLF \o <<"*", "2">> \o CRLF
                        \o <<":", "1">> \o CRLF \o <<":", "2">> \o CRLF
                        \o Bulk(<<"f", "o", "o">>),
          reply |-> Reply("*", <<>>,
                          <<Reply("*", <<>>, <<Reply(":", <<"1">>, <<>>),
                                               Reply(":", <<"2">>, <<>>)>>),
                            str(<<"f", "o", "o">>)>>),
          rec |-> NoRecord],
         [bytes |-> <<"*", "3">> \o CRLF \o Bulk(message) \o Bulk(<<"a">>)
                        \o Bulk(<<"x">>),
          reply |-> Reply("*", <<>>, <<str(message), str(<<"a">>), str(<<"x">>)>>),
          rec |-> [pattern |-> <<>>, channel |-> <<"a">>, message |-> <<"x">>]],
         [bytes |-> <<"*", "4">> \o CRLF \o Bulk(pmessage) \o Bulk(<<"p">>)
                        \o Bulk(<<"a">>) \o Bulk(<<"y">>),
          reply |-> Reply("*", <<>>, <<str(pmessage), str(<<"p">>), str(<<"a">>),
                                        str(<<"y">>)>>),
          rec |-> [pattern |-> <<"p">>, channel |-> <<"a">>, message |-> <<"y">>]]}

\* The ways the stream delivers the bytes b in at most k chunks.
RECURSIVE Chunkings(_, _)
Chunkings(b, k) ==
    IF b = <<>> THEN {<<>>}
    ELSE IF k <= 1 THEN {<<b>>}
    ELSE {<<b>>} \cup
         UNION {{<<SubSeq(b, 1, i)>> \o r :
                    r \in Chunkings(SubSeq(b, i + 1, Len(b)), k - 1)} :
                i \in 1..(Len(b) - 1)}

\* A socket on which the server has sent up to MaxFrames frames, or one
\* frame of which only a proper prefix arrived before the stream ended.
InitK ==
    /\ cfg = [maxRetryCount |-> 0, password |-> FALSE, db |-> FALSE, name |-> FALSE]
    /\ conn = [isClosed |-> FALSE, isConnected |-> TRUE, retryCount |-> 0, sock |-> 1]
    /\ socks = <<NewSocket>>
    /\ hist = [HistInit EXCEPT !.dials = 1]
    /\ InitMux /\ NoPipe /\ NoSub
    /\ env = [cmds |-> 0, faults |-> 0, errs |-> 0, closes |-> 0]
    /\ \E n \in 1..MaxFrames : \E fs \in [1..n -> ServerFrames] :
          LET RECURSIVE cat(_)
              cat(i) == IF i > n THEN <<>> ELSE fs[i].bytes \o cat(i + 1)
          IN  \/ \E ch \in Chunkings(cat(1), MaxChunks) : \E closed \in BOOLEAN :
                    stream = [frames |-> fs, chunks |-> ch, closed |-> closed,
                              whole |-> TRUE, out |-> <<>>]
              \/ /\ n = 1
                 /\ \E k \in 1..(Len(fs[1].bytes) - 1) :
                      \E ch \in Chunkings(SubSeq(fs[1].bytes, 1, k), MaxChunks) :
                        stream = [frames |-> fs, chunks |-> ch, closed |-> TRUE,
                                  whole |-> FALSE, out |-> <<>>]

\* A caller takes the reader of the stream and awaits readReply(reader):
\* sendCommand, or the loop of #_receive, which yields a record for a
\* message frame.
ReadReply ==
    /\ Len(stream.out) <= Len(stream.frames)
    /\ IF stream.out = <<>> THEN TRUE ELSE stream.out[Len(stream.out)].e = "-"
    /\ LET R == readReply(stream.chunks, stream.closed)
       IN  stream' = [stream EXCEPT
                         !.chunks = R.p.chunks,
                         !.out = Append(@, [e |-> R.e, v |-> R.v,
                                            rec |-> receive_record(R.v)])]
    /\ UNCHANGED <<cfg, env, conn, socks, muxVars, hist, pipeVars, sub>>

SpecCodec == InitK /\ [][ReadReply]_vars

\* ------------------------------------------------------------------ encoder
\* A text is a sequence of UTF-16 code units, one string each; "U+E9" is the
\* one code unit U+00E9, whose UTF-8 encoding is the two bytes C3 A9.
\* encoder.encode(text): the UTF-8 bytes of the text
RECURSIVE encode(_)
encode(text) ==
    IF text = <<>> THEN <<>>
    ELSE (IF Head(text) = "U+E9" THEN <<"C3", "A9">> ELSE <<Head(text)>>)
             \o encode(Tail(text))

\* String(n) for an integer n: its decimal text
RECURSIVE String(_)
String(n) ==
    IF n < 0 THEN <<"-">> \o String(0 - n)
    ELSE LET digit == CHOOSE c \in DOMAIN DigitVal : DigitVal[c] = n % 10
         IN  IF n < 10 THEN <<digit>> ELSE Append(String(n \div 10), digit)

\* The arguments a caller passes: RedisValue, null or undefined.
RedisValues ==
    {[k |-> "text", v |-> <<"a">>, n |-> 0], [k |-> "text", v |-> <<"U+E9">>, n |-> 0],
     [k |-> "text", v |-> <<>>, n |-> 0], [k |-> "int", v |-> <<>>, n |-> 10],
     [k |-> "int", v |-> <<>>, n |-> -1], [k |-> "bytes", v |-> CRLF, n |-> 0],
     [k |-> "null", v |-> <<>>, n |-> 0], [k |-> "undefined", v |-> <<>>, n |-> 0]}

\* _writeCommand(writer, command, args): the bytes it writes to the Buffer
writeCommand(command, args) ==
    LET _args == SelectSeq(args, LAMBDA v : v.k \notin {"undefined", "null"})
        arg(v) ==
            LET bytes == CASE v.k = "bytes" -> v.v
                           [] v.k = "int" -> encode(String(v.n))
                           [] OTHER -> encode(v.v)
                bytesLen == Len(bytes)
            IN  <<"$">> \o encode(String(bytesLen)) \o CRLF \o bytes \o CRLF
        RECURSIVE each(_)
        each(i) == IF i > Len(_args) THEN <<>> ELSE arg(_args[i]) \o each(i + 1)
    IN  <<"*">> \o encode(String(1 + Len(_args))) \o CRLF
            \o <<"$">> \o encode(String(Len(command))) \o CRLF
            \o encode(command) \o CRLF
            \o each(1)

\* writeRequest(writableStream, command, args): one write of buffer.bytes()
writeRequest(written, command, args) ==
    Append(written, writeCommand(command, args))

\* A caller about to send one command with up to MaxArgs arguments.
InitE ==
    /\ cfg = [maxRetryCount |-> 0, password |-> FALSE, db |-> FALSE, name |-> FALSE]
    /\ conn = [isClosed |-> FALSE, isConnected |-> TRUE, retryCount |-> 0, sock |-> 1]
    /\ socks = <<NewSocket>>
    /\ hist = [HistInit EXCEPT !.dials = 1]
    /\ InitMux /\ NoPipe /\ NoSub
    /\ env = [cmds |-> 1, faults |-> 0, errs |-> 0, closes |-> 0]
    /\ \E command \in {<<"G", "E", "T">>, <<"U+E9">>, <<"S", "U+E9">>} :
         \E n \in 0..MaxArgs : \E args \in [1..n -> RedisValues] :
            stream = [command |-> command, args |-> args, written |-> <<>>]

\* sendCommand, up to the release of the writer: writeRequest(streamWriter,
\* command, args)
WriteRequest ==
    /\ Len(stream.written) < env.cmds
    /\ stream' = [stream EXCEPT
                     !.written = writeRequest(@, stream.command, stream.args)]
    /\ UNCHANGED <<cfg, env, conn, socks, muxVars, hist, pipeVars, sub>>

SpecEnc == InitE /\ [][WriteRequest]_vars

\* ------------------------------------------------------------------ claims
Attempts(i) == Cardinality({k \in 1..Len(hist.sent) : hist.sent[k].id = i})
ActiveDrains == {t \in DrainTasks : task[t].pc # "idle"}

\* C1: with no transport fault, no malformed reply and no close, the i-th
\* submitted command is the i-th frame the executor writes, the i-th reply read
\* answers that frame, and the callers are settled in submission order, each
\* with the i-th reply read.
C1_OrderedDelivery ==
    hist.clean =>
        /\ \A i \in 1..Len(hist.sent) :
              /\ hist.sent[i].id = i
              /\ hist.sent[i].cmd = hist.cmdOf[i]
        /\ \A i \in 1..Len(hist.reads) :
              hist.reads[i].re = [id |-> i, cmd |-> hist.cmdOf[i]]
        /\ Len(hist.order) = Len(hist.reads)
        /\ \A i \in 1..Len(hist.order) :
              /\ hist.order[i] = i
              /\ settled[i].val = hist.reads[i]
              /\ settled[i].st = IF hist.reads[i].kind = "val" THEN "resolved"
                                 ELSE "rejected"

\* C1 witness: two callers settled in order while a third, submitted meanwhile, waits.
C1_Witness ==
    /\ hist.clean
    /\ hist.nSub = 3
    /\ Len(hist.order) = 2
    /\ Len(queue) = 1

\* C2: at most one dequeue() run is past its guard at any time, at most one
\* of them awaits a reply, and no open socket holds more than one unanswered frame.
C2_SingleDrain ==
    /\ Cardinality(ActiveDrains) <= 1
    /\ Cardinality({t \in DrainTasks : task[t].io = "r"}) <= 1
    /\ \A s \in 1..Len(socks) :
          socks[s].st = "open" => Len(socks[s].pending) <= 1

\* C2 witness: exec() was called twice while a command awaits its reply.
C2_Witness ==
    /\ \E t \in DrainTasks : task[t].pc = "d_send" /\ task[t].io = "r"
    /\ Len(queue) = 3

\* C3 (as claimed): every exec() made after the user's close() is rejected
\* with ConnectionClosedError and is never enqueued.
C3_ClosedRejects ==
    \A i \in hist.afterClose :
        /\ settled[i].st = "rejected"
        /\ settled[i].val = ErrVal("ConnectionClosed")
        /\ Attempts(i) = 0

\* C4: after a retriable fault on the head and a successful reconnect the
\* head record is still queued and unsettled, the next frame the executor
\* writes is that same command again, and a value reply resolves the caller
\* of the command it answers.
C4_RetryKeepsHead ==
    /\ hist.retryOf # NoItem =>
          /\ queue # <<>>
          /\ queue[1] = hist.retryOf
          /\ settled[hist.retryOf.id].st = "none"
    /\ \A i \in 1..Len(hist.sent) :
          hist.sent[i].after # NoItem =>
              /\ hist.sent[i].id = hist.sent[i].after.id
              /\ hist.sent[i].cmd = hist.sent[i].after.cmd
              /\ hist.sent[i].cmd = hist.cmdOf[hist.sent[i].id]
    /\ \A i \in 1..Len(hist.reads) :
          hist.reads[i].kind = "val" =>
              settled[hist.reads[i].re.id] =
                  [st |-> "resolved", val |-> hist.reads[i], n |-> 1]

\* C4 witness: a command was resent after a reconnect, ahead of a later one,
\* and its caller was resolved.
C4_Witness ==
    /\ hist.nSub >= 2
    /\ \E i \in 1..Len(hist.sent) :
          /\ hist.sent[i].after # NoItem
          /\ settled[hist.sent[i].id].st = "resolved"
          /\ hist.sent[i].id = 1
    /\ settled[2].st = "none"

\* C5 (as claimed): a command is written at most maxRetryCount + 1 times.
C5_RetryBounded ==
    \A i \in 1..hist.nSub : Attempts(i) <= cfg.maxRetryCount + 1

\* C6 (as claimed): once the user has called close(), no dial is started and
\* isClosed stays true.
C6_ClosedNeverReconnects ==
    hist.userClosed => (conn.isClosed /\ hist.dialsAfterClose = 0)

\* C7: once AUTH was answered with an error reply, connect() has thrown
\* AuthenticationError, with one dial per backoff delay before it plus the one
\* that reached AUTH, and no dial and no backoff delay follows.
C7_AuthTerminal ==
    hist.authFailed =>
        /\ task[UserTask].pc = "done"
        /\ task[UserTask].cn.err = "AuthenticationError"
        /\ hist.dials = hist.authDials
        /\ hist.sleeps = hist.authSleeps
        /\ task[UserTask].cn.dials = Len(task[UserTask].cn.sleeps) + 1
        /\ conn.retryCount = 0

\* C7 witness: AUTH refused on a retry (retry counter above 0) with retries left.
C7_Witness ==
    /\ hist.authFailed
    /\ cfg.maxRetryCount = 2
    /\ Len(task[UserTask].cn.sleeps) = 1

\* C8: a connect() all of whose dials failed made maxRetryCount + 1 dials,
\* called backoff with 1..maxRetryCount in order, threw the last dial error
\* and left the retry counter at 0.
C8_DialRetries ==
    (task[UserTask].pc = "done" /\ task[UserTask].cn.oks = 0) =>
        /\ task[UserTask].cn.dials = cfg.maxRetryCount + 1
        /\ task[UserTask].cn.sleeps = [i \in 1..cfg.maxRetryCount |-> i]
        /\ task[UserTask].cn.err = task[UserTask].cn.lastDialErr
        /\ task[UserTask].cn.err \in DialErrors
        /\ conn.retryCount = 0

\* C8 witness: every dial failed, with two retries allowed.
C8_Witness ==
    /\ task[UserTask].pc = "done"
    /\ task[UserTask].cn.oks = 0
    /\ cfg.maxRetryCount = 2

\* C9 (as claimed): every flush that returns, in either mode, returns one
\* entry per queued command, entry i being the outcome of command i.
C9_OnePerCommand ==
    flush.pc = "done" =>
        /\ Len(flush.results) = Len(flush.snap)
        /\ \A i \in 1..Len(flush.results) : flush.results[i].re = flush.snap[i]

\* C9 (amended): a flush in non-transactional mode that returns, returns one
\* entry per queued command; entry i is what the server answered to command
\* i, an ErrorReply value where it answered with an error reply and the
\* value reply elsewhere.
C9_OnePerCommandNoTx ==
    (flush.pc = "done" /\ ~tx) =>
        /\ Len(flush.results) = Len(flush.snap)
        /\ flush.results = flush.got
        /\ \A i \in 1..Len(flush.results) :
              /\ flush.results[i].re = flush.snap[i]
              /\ flush.results[i].re.cmd = hist.cmdOf[flush.results[i].re.id]
              /\ flush.results[i].kind \in {"val", "err"}

\* C9 witness: three commands flushed, the second answered with an error reply.
C9_Witness ==
    /\ flush.pc = "done"
    /\ ~tx
    /\ Len(flush.snap) = 3
    /\ flush.results[2].kind = "err"
    /\ flush.results[1].kind = "val"
    /\ flush.results[3].kind = "val"

\* C10: a transactional flush writes a prefix of MULTI, c1 .. cK, EXEC and
\* nothing else; one that returns has written all of it and returns the
\* replies to those K + 2 frames, in order.
C10_TxFraming ==
    LET expect == <<Frame("MULTI")>> \o flush.snap \o <<Frame("EXEC")>>
    IN  (tx /\ flush.pc # "idle") =>
            /\ Len(flush.written) <= Len(expect)
            /\ flush.written = SubSeq(expect, 1, Len(flush.written))
            /\ flush.pc = "done" =>
                  /\ flush.written = expect
                  /\ Len(flush.results) = Len(flush.snap) + 2
                  /\ \A i \in 1..Len(flush.results) :
                        flush.results[i].re = expect[i]

\* C10 witness: a transactional flush of two commands has returned.
C10_Witness ==
    /\ tx
    /\ flush.pc = "done"
    /\ Len(flush.snap) = 2
    /\ Len(flush.results) = 4

\* The record of the i-th submission.
Submitted(i) == [id |-> i, cmd |-> hist.cmdOf[i]]

\* C11 (as claimed): a flush of an empty queue, in either mode, returns an
\* empty list and writes nothing to the connection.
C11_EmptyFlushWritesNothing ==
    (flush.pc # "idle" /\ flush.snap = <<>>) =>
        /\ flush.pc = "done"
        /\ flush.results = <<>>
        /\ flush.written = <<>>

\* C12: a step in which PipelineExecutor.exec is called leaves the connection,
\* its sockets and the running flush as they are, appends the record of that
\* submission at the tail of the list, keeps the earlier records, and has
\* resolved the caller with okReply.
C12_ExecOnlyQueues ==
    [][hist'.nSub # hist.nSub =>
          /\ conn' = conn
          /\ socks' = socks
          /\ flush' = flush
          /\ Len(commands') = Len(commands) + 1
          /\ SubSeq(commands', 1, Len(commands)) = commands
          /\ commands'[Len(commands')] =
                 [id |-> hist'.nSub, cmd |-> hist'.cmdOf[hist'.nSub]]
          /\ settled'[hist'.nSub] = [st |-> "resolved", val |-> okReply, n |-> 1]
          /\ \A i \in 1..hist.nSub : settled'[i] = settled[i]]_vars

\* C12 witness: a second record was queued after the connection was closed.
C12_Witness ==
    /\ conn.isClosed
    /\ 2 \in hist.afterClose
    /\ Len(commands) = 2
    /\ settled[2] = [st |-> "resolved", val |-> okReply, n |-> 1]

\* C13: the list holds exactly the submissions made since the last flush
\* started, that flush's snapshot holds exactly those made between the
\* flush before it and its own start, it writes no command outside its
\* snapshot, and when it returns it has written every command of the snapshot.
C13_SnapshotAndClear ==
    /\ commands = [i \in 1..(hist.nSub - flush.upto) |-> Submitted(flush.upto + i)]
    /\ flush.snap = [i \in 1..(flush.upto - flush.from) |-> Submitted(flush.from + i)]
    /\ \A i \in 1..Len(flush.written) :
          flush.written[i].id # 0 =>
              (flush.written[i].id > flush.from /\ flush.written[i].id <= flush.upto)
    /\ flush.pc = "done" =>
          \A i \in 1..Len(flush.snap) :
              \E k \in 1..Len(flush.written) : flush.written[k] = flush.snap[i]

\* C13 witness: a command submitted while the first flush awaited a reply was
\* sent by the second flush, which has returned.
C13_Witness ==
    /\ flush.n = 2
    /\ flush.pc = "done"
    /\ flush.snap # <<>>
    /\ flush.snap[1].id \in hist.duringFlush
    /\ flush.from > 0

\* C14: once a write or read of sendCommands failed with a transport error
\* at position idx, the call has thrown that error, has not returned, and the
\* frames written are a prefix of the batch that ends at position idx or
\* just before it.
C14_FaultAbortsBatch ==
    flush.err \in RetriableErrors =>
        /\ flush.pc = "thrown"
        /\ Len(flush.written) \in {flush.idx - 1, flush.idx}
        /\ flush.written = SubSeq(flush.batch, 1, Len(flush.written))
        /\ Len(flush.results) = flush.idx - 1

\* C14 witness: the second of three commands failed after the first was answered.
C14_Witness ==
    /\ flush.pc = "thrown"
    /\ flush.err = "EOF"
    /\ flush.idx = 2
    /\ Len(flush.batch) = 3
    /\ Len(flush.results) = 1

\* C15 (as claimed): every failure the server reports for a queued command,
\* as an error reply or as an error element of the EXEC array, is a value of
\* the returned list, and a flush throws only a transport error.
C15_ServerErrorsAreValues ==
    /\ \A i \in 1..Len(flush.got) :
          flush.got[i].kind \in {"err", "arrerr"} =>
              (i <= Len(flush.results) /\ flush.results[i] = flush.got[i])
    /\ (flush.pc = "thrown" /\ flush.got # <<>>
            /\ flush.got[Len(flush.got)].kind \in {"err", "arrerr"}) =>
          flush.err \in RetriableErrors

\* C16: the step in which the mux reads an error reply to command i rejects
\* caller i with that ErrorReply and settles nobody else, takes the record
\* off the queue and keeps the others in order, starts no reconnect and
\* leaves the connection and every socket as they were; and every value
\* reply read, before or after it, has resolved the caller of the command it
\* answers.
C16_ErrorReplyIsLocal ==
    /\ [](\A k \in 1..Len(hist.reads) :
             hist.reads[k].kind = "val" =>
                 /\ hist.reads[k].re = Submitted(hist.reads[k].re.id)
                 /\ settled[hist.reads[k].re.id] =
                        [st |-> "resolved", val |-> hist.reads[k], n |-> 1])
    /\ [][(Len(hist'.reads) = Len(hist.reads) + 1
              /\ hist'.reads[Len(hist'.reads)].kind = "err") =>
             LET r == hist'.reads[Len(hist'.reads)]
             IN  /\ settled'[r.re.id] = [st |-> "rejected", val |-> r, n |-> 1]
                 /\ \A j \in 1..MaxCmds : j # r.re.id => settled'[j] = settled[j]
                 /\ queue # <<>> /\ queue[1] = r.re /\ queue' = Tail(queue)
                 /\ hist'.reconnects = hist.reconnects
                 /\ conn' = conn
                 /\ Len(socks') = Len(socks)
                 /\ \A s \in 1..Len(socks) : socks'[s].st = socks[s].st]_vars

\* C16 witness: the first command was answered with an error reply, the
\* second, queued behind it, with its own value; no reconnect happened.
C16_Witness ==
    /\ Len(hist.reads) = 2
    /\ hist.reads[1].kind = "err"
    /\ hist.reads[2].kind = "val"
    /\ settled[1].st = "rejected"
    /\ settled[2] = [st |-> "resolved", val |-> hist.reads[2], n |-> 1]
    /\ hist.reads[2].re.id = 2
    /\ hist.reconnects = 0
    /\ ~conn.isClosed
    /\ cfg.maxRetryCount > 0

\* The subscriptions the server holds for the socket the connection uses.
ServerSubs == IF conn.sock = 0 THEN {} ELSE socks[conn.sock].subs
ServerPSubs == IF conn.sock = 0 THEN {} ELSE socks[conn.sock].psubs

\* C17 (as claimed): after a read of the receive loop failed with a
\* retriable transport fault on a connection the user had not closed, the
\* session has called reconnect, and the iterator has neither thrown that
\* fault to its consumer nor ended.
C17_FaultsReconnect ==
    (sub.fault \in RetriableErrors /\ ~sub.faultClosed) =>
        /\ sub.reconnCalled
        /\ ~(sub.iter = "thrown" /\ sub.err = sub.fault)

\* The calls a replay of the local sets consists of.
ReplayOf(chs, pts) ==
    (IF chs # {} THEN <<[cmd |-> "SUBSCRIBE", args |-> chs]>> ELSE <<>>)
        \o (IF pts # {} THEN <<[cmd |-> "PSUBSCRIBE", args |-> pts]>> ELSE <<>>)

\* C18: when the receive loop performs its first read after it reconnected,
\* the calls it made since the reconnect are SUBSCRIBE with every local
\* channel and PSUBSCRIBE with every local pattern (each only if its set is
\* not empty), each was written to the connection and acknowledged, the
\* server holds nothing for the socket that is not in the local sets, and it
\* holds exactly the local sets unless the executor replaced the socket again
\* during the replay.
C18_ReplayBeforeRead ==
    (task[RecvTask].pc = "rv_read" /\ sub.fresh) =>
        LET exp == ReplayOf(sub.channels, sub.patterns)
            base == hist.nSub - Len(exp)
        IN  /\ sub.replayed = exp
            /\ base >= 0
            /\ \A i \in 1..Len(exp) :
                  /\ hist.cmdOf[base + i] = exp[i].cmd
                  /\ hist.argsOf[base + i] = exp[i].args
                  /\ Attempts(base + i) >= 1
                  /\ settled[base + i].st = "resolved"
            /\ ServerSubs \subseteq sub.channels
            /\ ServerPSubs \subseteq sub.patterns
            /\ hist.reconnects = sub.muxReconn =>
                  (ServerSubs = sub.channels /\ ServerPSubs = sub.patterns)

\* C18 witness: the loop reads again after a reconnect with a channel and a
\* pattern replayed.
C18_Witness ==
    /\ task[RecvTask].pc = "rv_read"
    /\ sub.fresh
    /\ Len(sub.replayed) = 2
    /\ sub.channels # {}
    /\ sub.patterns # {}
    /\ conn.sock > 1

\* C19 (as claimed): the iterator never yields a message for a channel or
\* pattern the session was asked to drop, and, as long as no fault occurred,
\* whenever no call is in progress the local sets equal what the server
\* holds for the session.
C19_LocalEqualsServer ==
    /\ ~sub.stale
    /\ (sub.op = NoOp /\ hist.nFaults = 0 /\ hist.nErrs = 0 /\ ~hist.userClosed) =>
          (sub.channels = ServerSubs /\ sub.patterns = ServerPSubs)

\* C20: a step changes the local sets only when it acknowledges the awaited
\* exec, and then by exactly the arguments of that call; a step in which the
\* exec of a call is rejected, at once or later, leaves both sets as they were.
C20_SetsChangeOnAck ==
    [][/\ (sub'.channels # sub.channels \/ sub'.patterns # sub.patterns) =>
             /\ sub.op # NoOp
             /\ settled[sub.op.id].st = "none"
             /\ settled'[sub.op.id].st = "resolved"
             /\ sub'.channels =
                    CASE sub.op.kind = "SUBSCRIBE" -> sub.channels \cup sub.op.args
                      [] sub.op.kind = "UNSUBSCRIBE" -> sub.channels \ sub.op.args
                      [] OTHER -> sub.channels
             /\ sub'.patterns =
                    CASE sub.op.kind = "PSUBSCRIBE" -> sub.patterns \cup sub.op.args
                      [] sub.op.kind = "PUNSUBSCRIBE" -> sub.patterns \ sub.op.args
                      [] OTHER -> sub.patterns
       /\ ((sub.op # NoOp /\ settled'[sub.op.id].st = "rejected")
              \/ (sub'.nCalls # sub.nCalls /\ sub'.opResult = "rejected")) =>
             (sub'.channels = sub.channels /\ sub'.patterns = sub.patterns)]_vars

\* C20 witness: subscribe("b") was rejected on an open connection and the
\* sets are those the session started with.
C20_Witness ==
    /\ sub.opResult = "rejected"
    /\ hist.nSub = 1
    /\ hist.cmdOf[1] = "SUBSCRIBE"
    /\ hist.argsOf[1] = {"b"}
    /\ sub.channels = {"a"}
    /\ ~conn.isClosed

\* C21 (as claimed): when the read that was pending while the user called
\* close() has ended, with BadResource or with end-of-stream, the iterator is
\* done, has thrown nothing to its consumer and has not called reconnect.
C21_CloseEndsIterator ==
    (sub.faultClosed /\ sub.fault \in {"BadResource", "EOF"}) =>
        /\ sub.iter = "done"
        /\ sub.err = "-"
        /\ ~sub.reconnCalled

\* C22 (as claimed): on a stream that carries message and pmessage frames and
\* does not end, the i-th readReply of the receive loop returns and the
\* record yielded for it is the record of the i-th frame pushed, however the
\* bytes are split into chunks.
C22_EveryPushYielded ==
    (/\ stream.whole
     /\ ~stream.closed
     /\ \A i \in 1..Len(stream.frames) : stream.frames[i].rec # NoRecord) =>
        \A i \in 1..Len(stream.out) :
            i <= Len(stream.frames) =>
                /\ stream.out[i].e = "-"
                /\ stream.out[i].rec = stream.frames[i].rec

\* C23 (as claimed): on a stream of well-formed frames, however split into
\* chunks, the i-th readReply returns the reply the i-th frame encodes.
C23_NoBytesLost ==
    stream.whole =>
        \A i \in 1..Len(stream.out) :
            i <= Len(stream.frames) =>
                /\ stream.out[i].e = "-"
                /\ stream.out[i].v = stream.frames[i].reply

\* C24 (as claimed): when the stream ends inside a frame, readReply throws
\* EOFError and returns no reply.
C24_TruncatedIsEOF ==
    (~stream.whole /\ stream.out # <<>>) => stream.out[1].e = "EOF"

\* C25 (as claimed): the step in which the read of a mux command's reply
\* fails with a decode error, InvalidState for a malformed reply or EOF for
\* a stream that ended, rejects the caller of that command, leaves the
\* connection closed and starts no reconnect.
C25_DecodeErrorCloses ==
    [][\A t \in DrainTasks :
          (/\ task[t].pc = "d_send"
           /\ task[t].io = "r"
           /\ \/ /\ Len(hist'.reads) = Len(hist.reads) + 1
                 /\ hist'.reads[Len(hist'.reads)].kind = "bad"
              \/ hist'.nFaults = hist.nFaults + 1) =>
              /\ settled'[task[t].item.id].st = "rejected"
              /\ conn'.isClosed
              /\ hist'.reconnects = hist.reconnects]_vars

\* C26: with maxRetryCount = 0 the executor never calls reconnect, never
\* dials and writes no command twice; the step in which the write or the
\* read of the head command fails with a transport fault rejects the caller
\* of that command with that fault and takes its record, and no other, off
\* the queue.
C26_NoRetryBudget ==
    /\ [](cfg.maxRetryCount = 0 =>
             /\ hist.reconnects = 0
             /\ hist.dials = 1
             /\ \A i \in 1..hist.nSub : Attempts(i) <= 1)
    /\ [][cfg.maxRetryCount = 0 =>
             \A t \in DrainTasks :
                 (/\ task[t].pc = "d_send"
                  /\ task'[t] # task[t]
                  /\ \/ hist'.nFaults > hist.nFaults
                     \/ socks[task[t].sock].st # "open") =>
                     LET r == settled'[task[t].item.id]
                     IN  /\ settled[task[t].item.id].st = "none"
                         /\ r.st = "rejected"
                         /\ r.val = ErrVal(r.val.kind)
                         /\ r.val.kind \in RetriableErrors
                         /\ hist'.nFaults > hist.nFaults => r.val.kind \in IoFaults
                         /\ queue # <<>>
                         /\ queue[1] = task[t].item
                         /\ queue' = Tail(queue)]_vars

\* C26 witness: without retry budget the first caller was rejected with the
\* fault of its read and the second, queued behind it, with the broken pipe.
C26_Witness ==
    /\ cfg.maxRetryCount = 0
    /\ hist.nSub = 2
    /\ settled[1] = [st |-> "rejected", val |-> ErrVal("EOF"), n |-> 1]
    /\ settled[2] = [st |-> "rejected", val |-> ErrVal("BrokenPipe"), n |-> 1]
    /\ Len(hist.sent) = 1
    /\ queue = <<>>

\* C27 (as claimed, for the receive loop): the loop has called reconnect
\* only after a read of it failed with a retriable transport fault on a
\* connection the user had not closed.
C27_ReconnectOnlyOnFault ==
    sub.reconnCalled => (sub.fault \in RetriableErrors /\ ~sub.faultClosed)

\* C28 (as claimed): once connect and reconnect have run to their end, the
\* closed flag is set only if the user has called close().
C28_ClosedOnlyByUser ==
    (conn.isClosed /\ \A t \in Tasks : task[t].pc \in {"idle", "done"}) =>
        hist.userClosed

\* C29: the step in which connect() returns without an error leaves the
\* connection connected and not closed; every step in which close() is
\* called leaves it closed, not connected, with its socket closed, and
\* changes nothing when all that held before; close() never throws.
C29_ConnectAndClose ==
    /\ [](~hist.closeThrew)
    /\ [][/\ (/\ task[UserTask].pc # "done"
              /\ task'[UserTask].pc = "done"
              /\ task'[UserTask].cn.err = "-") =>
                 (conn'.isConnected /\ ~conn'.isClosed)
          /\ hist'.nCloses = hist.nCloses + 1 =>
                 /\ conn'.isClosed
                 /\ ~conn'.isConnected
                 /\ conn'.sock = conn.sock
                 /\ conn.sock # 0 => socks'[conn.sock].st = "closed"
                 /\ (/\ conn.isClosed
                     /\ ~conn.isConnected
                     /\ conn.sock # 0 => socks[conn.sock].st = "closed") =>
                        (conn' = conn /\ socks' = socks)]_vars

\* C29 witness: connect() has returned, close() was then called twice, the
\* second time on a closed socket.
C29_Witness ==
    /\ task[UserTask].pc = "done"
    /\ task[UserTask].cn.err = "-"
    /\ hist.nCloses = 2
    /\ conn.isClosed
    /\ ~conn.isConnected
    /\ socks[conn.sock].st = "closed"
    /\ hist.dialsAfterClose = 0

\* C30 (as claimed): the frames written to a socket before the first mux
\* command are a prefix of AUTH, SELECT, CLIENT SETNAME (each only if
\* configured), and all of them once a mux command was written.
C30_HandshakeExactly ==
    \A s \in 1..Len(socks) :
        LET w == socks[s].wrote
            hs == HandshakeFrames(cfg)
            user == {i \in 1..Len(w) : w[i] \in CmdNames}
            pre == IF user = {} THEN w
                   ELSE SubSeq(w, 1, (CHOOSE i \in user : \A j \in user : i <= j) - 1)
        IN  /\ Len(pre) <= Len(hs)
            /\ pre = SubSeq(hs, 1, Len(pre))
            /\ user # {} => pre = hs

\* C30 (amended): the frames written to a socket before the first mux
\* command are AUTH, SELECT, CLIENT SETNAME (each only if configured) in that
\* order, followed only by PING frames of reconnect; a mux command is
\* written only after the whole handshake, and on a socket that reconnect
\* established only after its PING as well.
C30_HandshakeThenPing ==
    \A s \in 1..Len(socks) :
        LET w == socks[s].wrote
            hs == HandshakeFrames(cfg)
            user == {i \in 1..Len(w) : w[i] \in CmdNames}
            pre == IF user = {} THEN w
                   ELSE SubSeq(w, 1, (CHOOSE i \in user : \A j \in user : i <= j) - 1)
        IN  /\ \A i \in 1..Len(pre) :
                  pre[i] = IF i <= Len(hs) THEN hs[i] ELSE "PING"
            /\ user # {} => Len(pre) >= Len(hs)
            /\ (user # {} /\ s > 1) => Len(pre) > Len(hs)

\* C30 witness: a socket established by reconnect carries the whole
\* handshake, the PING of reconnect and then the command that is retried.
C30_Witness ==
    /\ Len(socks) >= 2
    /\ cfg.password
    /\ socks[2].wrote = <<"AUTH", "SELECT", "CLIENT SETNAME", "PING", "GET">>

\* C31: for every command name and argument list, the bytes written by the
\* request encoder are the RESP2 array of bulk strings whose elements are the
\* command and the non-null arguments in order, the array count and every
\* bulk length prefix being the actual number of elements and byte length.
C31_RequestIsBulkArray ==
    \A k \in 1..Len(stream.written) :
        LET keep == SelectSeq(stream.args, LAMBDA v : v.k \notin {"undefined", "null"})
            bytesOf(v) == CASE v.k = "bytes" -> v.v
                            [] v.k = "int" -> encode(String(v.n))
                            [] OTHER -> encode(v.v)
            elems == <<encode(stream.command)>>
                         \o [i \in 1..Len(keep) |-> bytesOf(keep[i])]
            RECURSIVE cat(_)
            cat(i) == IF i > Len(elems) THEN <<>> ELSE Bulk(elems[i]) \o cat(i + 1)
        IN  stream.written[k] = <<"*">> \o encode(String(Len(elems))) \o CRLF \o cat(1)

\* C32: the null bulk reply decodes to null and the empty bulk reply to an
\* empty byte string, and each of the accessors value, bulk, buffer and
\* string returns different results for the two.
C32_NullIsNotEmpty ==
    /\ \A k \in DOMAIN stream.out :
          stream.whole /\ k = 1 /\ stream.frames[1].reply.t \in {"nil", "$"}
              => stream.out[1].e = "-" /\ stream.out[1].v = stream.frames[1].reply
    /\ \A i, j \in DOMAIN stream.out :
          /\ stream.out[i].e = "-" /\ stream.out[i].v = Reply("nil", <<>>, <<>>)
          /\ stream.out[j].e = "-" /\ stream.out[j].v = Reply("$", <<>>, <<>>)
          => LET null == BulkReply(stream.out[i].v)
                 empty == BulkReply(stream.out[j].v)
             IN  /\ null.value # empty.value
                 /\ null.bulk # empty.bulk
                 /\ null.buffer # empty.buffer
                 /\ null.string # empty.string

\* C33: on a stream of well-formed reply frames, readReply returns the value
\* the first frame encodes and consumes exactly the bytes of that frame: what
\* the stream still holds for the next call is the bytes of the frames after it.
C33_DecodesOneFrame ==
    stream.whole /\ Len(stream.out) = 1
        => LET RECURSIVE flat(_)
               flat(c) == IF c = <<>> THEN <<>> ELSE Head(c) \o flat(Tail(c))
               RECURSIVE rest(_)
               rest(i) == IF i > Len(stream.frames) THEN <<>>
                          ELSE stream.frames[i].bytes \o rest(i + 1)
           IN  /\ stream.out[1].e = "-"
               /\ stream.out[1].v = stream.frames[1].reply
               /\ flat(stream.chunks) = rest(2)

\* C34: the two halves of a connection are never in use by two executors at
\* once: while the receive loop of a subscription awaits its read on a
\* socket, no drain step of the MuxExecutor and no pipeline flush awaits a
\* write or a read on that socket, nor a flush while a drain step does.
C34_OneExecutorAtATime ==
    LET recv == IF task[RecvTask].pc = "rv_read" THEN {task[RecvTask].sock} ELSE {}
        drain == {task[t].sock : t \in {d \in DrainTasks : task[d].pc = "d_send"}}
        pipe == IF flush.pc = "send" THEN {flush.sock} ELSE {}
    IN  /\ recv \cap drain = {}
        /\ recv \cap pipe = {}
        /\ drain \cap pipe = {}

\* C35: when the server answers SELECT or CLIENT SETNAME with an error reply
\* during the handshake, connect() ends at once with that error: it does not
\* sleep for a backoff delay and does not dial again.
C35_HandshakeErrorEndsConnect ==
    [][(/\ task[UserTask].pc \in {"cn_select", "cn_setname"}
        /\ task[UserTask].io = "r"
        /\ hist.nErrs' = hist.nErrs + 1)
          => /\ task'[UserTask].pc = "done"
             /\ task'[UserTask].cn.err = "ErrorReply"
             /\ hist.sleeps' = hist.sleeps]_vars

\* C36: a MuxExecutor never strands work: whenever no drain step is in
\* progress (isProcessing is false and no drain awaits a send, a read or a
\* reconnect), the queue is empty.
C36_NoStrandedWork ==
    (~isProcessing /\ ActiveDrains = {}) => queue = <<>>

\* C36 witness: the executor is at rest with an empty queue after three
\* submissions, one of which was sent again after a reconnect.
C36_Witness ==
    /\ ~isProcessing /\ ActiveDrains = {} /\ queue = <<>>
    /\ hist.nSub = MaxCmds
    /\ hist.reconnects > 0
    /\ \E i \in 1..hist.nSub : Attempts(i) > 1

\* C37 (as claimed): every command submitted to a MuxExecutor is settled
\* exactly once: a submitted command is unsettled exactly while its record is
\* in the queue (so the record leaves the queue in the step that settles its
\* caller, and a record kept for a retry is unsettled), no caller is resolved
\* or rejected a second time, and a reply a caller is settled with is the
\* reply to its own command.
C37_SettledExactlyOnce ==
    LET queued == {queue[k].id : k \in 1..Len(queue)}
    IN  /\ Cardinality(queued) = Len(queue)
        /\ \A i \in 1..hist.nSub :
              /\ settled[i].st = "none" <=> i \in queued
              /\ settled[i].st # "none" => settled[i].n = 1
              /\ (settled[i].st # "none" /\ settled[i].val.kind \in ReplyKinds)
                    => settled[i].val.re = [id |-> i, cmd |-> hist.cmdOf[i]]

\* C37 (amended): as above, except that a caller whose command failed with a
\* retriable error may be rejected with the error reply the server gave to
\* the PING of reconnect(); the reply to the frame of a submission settles
\* the caller of that submission only, and a caller is resolved only with
\* the reply to its own frame.
C37_SettledOnceOwnReply ==
    LET queued == {queue[k].id : k \in 1..Len(queue)}
    IN  /\ Cardinality(queued) = Len(queue)
        /\ \A i \in 1..hist.nSub :
              /\ settled[i].st = "none" <=> i \in queued
              /\ settled[i].st # "none" => settled[i].n = 1
              /\ (settled[i].st # "none" /\ settled[i].val.kind \in ReplyKinds)
                    => \/ settled[i].val.re = [id |-> i, cmd |-> hist.cmdOf[i]]
                       \/ /\ settled[i].st = "rejected"
                          /\ settled[i].val = [kind |-> "err", re |-> Frame("PING")]
                          /\ hist.reconnects > 0

\* C37 witness: a caller was rejected with the error reply to the PING of
\* reconnect(), the callers submitted meanwhile were resolved, each once.
C37_Witness ==
    /\ hist.nSub = MaxCmds
    /\ \E j \in 1..hist.nSub :
          /\ settled[j].st = "rejected"
          /\ settled[j].val = [kind |-> "err", re |-> Frame("PING")]
          /\ \A i \in (1..hist.nSub) \ {j} : settled[i].st = "resolved"
    /\ queue = <<>>

\* C38: when the user has called close() while commands are queued, one of
\* them in flight, the queue eventually is empty with no drain running and
\* every submitted command settled; from the close on a caller is settled
\* only by a rejection, no command is written again, no dial is made and the
\* connection stays closed.
C38_CloseRejectsQueued ==
    /\ (/\ hist.userClosed /\ conn.isClosed
        /\ \E t \in DrainTasks : task[t].pc = "d_send")
           ~> (/\ queue = <<>> /\ ActiveDrains = {}
               /\ \A i \in 1..hist.nSub : settled[i].st # "none")
    /\ [][(/\ hist.userClosed /\ conn.isClosed
           /\ \E t \in DrainTasks : task[t].pc = "d_send")
             => /\ \A i \in 1..MaxCmds :
                      settled[i].st = "none" => settled'[i].st \in {"none", "rejected"}
                /\ hist.sent' = hist.sent
                /\ hist.dials' = hist.dials
                /\ conn'.isClosed]_vars

\* C38 witness: three commands were queued when the user called close(), one
\* of them written and awaiting its reply; all three callers were rejected
\* with the error of the closed socket and nothing was dialled.
C38_Witness ==
    /\ hist.userClosed /\ hist.afterClose = {} /\ hist.nFaults = 0
    /\ hist.nSub = MaxCmds /\ Len(hist.sent) = 1 /\ hist.reads = <<>>
    /\ \A i \in 1..MaxCmds :
          settled[i].st = "rejected" /\ settled[i].val = ErrVal("BadResource")
    /\ queue = <<>> /\ ActiveDrains = {}
    /\ hist.dials = 1

\* C39: a submission is rejected with ConnectionClosedError only if the user
\* had called close() before it: a submission made while the drain is inside
\* reconnect() is enqueued.
C39_ClosedErrorOnlyAfterClose ==
    \A i \in 1..hist.nSub :
        settled[i].val = ErrVal("ConnectionClosed") => i \in hist.afterClose

\* C40: in every reachable state of a connection, isClosed and isConnected
\* are not both true.
C40_ClosedXorConnected ==
    ~(conn.isClosed /\ conn.isConnected)

====
